---- MODULE Spec2Model ----
(***************************************************************************)
(* Verification model of object-to-directory: the path codec               *)
(* (encodePathElement / decodePathElement), the directory reference        *)
(* (DirectoryReference) and the directory value storage handler            *)
(* (DirectoryValueStorageHandler.storeValue).                              *)
(*                                                                         *)
(* Strings are sequences of one-character strings, so that replaceAll,     *)
(* startsWith, URL parsing and path normalisation are computed character   *)
(* by character as the code computes them.                                 *)
(***************************************************************************)
EXTENDS Integers, Sequences, FiniteSets, TLC

VARIABLES
    \* path codec exercise (SpecCodec)
    element, encoded, decoded, codecPc,
    \* directory reference exercise (SpecResolver)
    dirInput, dirRef, dirName, dirResult, resolverPc,
    \* DirectoryValueStorageHandler (Spec): the handler's fields,
    handlers, defaultOptions,
    \* the arguments of the top-level storeValue call,
    rootPath, rootDestination, rootValue, rootOptions,
    \* the storeValue invocations in progress, innermost last,
    stack,
    \* the calls received by the directory creator and the candidate handlers,
    calls,
    \* how the top-level promise settled,
    outcome,
    \* the answer of a canStoreValue call made before storeValue,
    answered,
    \* the caller's own handler array, how the handler was built from it and
    \* what the array held at that time,
    callerHandlers, construction, constructedWith,
    \* the first error thrown and the number of calls made until then,
    raised,
    \* the number of createDirectory and storeValue promises of the
    \* collaborators that have settled,
    settled,
    \* a directory handler used as a candidate of another one: the default
    \* options of the two handlers, the options of the call, the value of the
    \* innermost property, the options the inner handler was called with,
    \* the position of the call and how it settled,
    outerOptions, innerOptions, callOptions, leafValue, handedDown,
    nestedPc, nestedOutcome,
    \* the mock handler: its defaultCanStoreValue field and the calls it and
    \* the mock directory creator have received,
    defaultCanStoreValue, mockCalls,
    \* the fluent handlers built over the mock handler, in the order of their
    \* creation, and the storeValue calls made on them
    wrappers, requests

codecVars == <<element, encoded, decoded, codecPc>>
resolverVars == <<dirInput, dirRef, dirName, dirResult, resolverPc>>
configVars ==
    <<handlers, defaultOptions, rootPath, rootDestination, rootValue, rootOptions,
      callerHandlers, construction, constructedWith>>
storeVars == <<configVars, stack, calls, outcome, answered, raised, settled>>
nestedVars ==
    <<outerOptions, innerOptions, callOptions, leafValue, handedDown,
      nestedPc, nestedOutcome>>
mockVars == <<defaultCanStoreValue, mockCalls>>
fluentVars == <<wrappers, requests>>
extraVars == <<nestedVars, mockVars, fluentVars>>

(***************************************************************************)
(* Bounds                                                                  *)
(***************************************************************************)
\* longest string handed to the path codec
MaxLen == 4
\* longest name handed to getContentsUrl
MaxNameLen == 6
\* most candidate handlers in the handler list
MaxHandlers == 2
\* deepest nesting of storeValue invocations that is followed
MaxDepth == 4

(***************************************************************************)
(* String helpers (JavaScript String methods on character sequences)       *)
(***************************************************************************)
StartsWith(s, p) ==
    /\ Len(p) <= Len(s)
    /\ SubSeq(s, 1, Len(p)) = p

EndsWith(s, p) ==
    /\ Len(p) <= Len(s)
    /\ SubSeq(s, Len(s) - Len(p) + 1, Len(s)) = p

Includes(s, c) == \E i \in 1..Len(s) : s[i] = c

\* String.prototype.replaceAll(pat, rep) with a string pattern: every
\* non-overlapping occurrence, scanning left to right.
RECURSIVE ReplaceAll(_, _, _)
ReplaceAll(s, pat, rep) ==
    IF Len(s) < Len(pat) THEN s
    ELSE IF SubSeq(s, 1, Len(pat)) = pat
         THEN rep \o ReplaceAll(SubSeq(s, Len(pat) + 1, Len(s)), pat, rep)
         ELSE <<s[1]>> \o ReplaceAll(Tail(s), pat, rep)

\* String.prototype.replace(pat, rep) with a string pattern: the first
\* occurrence only.
RECURSIVE ReplaceFirst(_, _, _)
ReplaceFirst(s, pat, rep) ==
    IF Len(s) < Len(pat) THEN s
    ELSE IF SubSeq(s, 1, Len(pat)) = pat
         THEN rep \o SubSeq(s, Len(pat) + 1, Len(s))
         ELSE <<s[1]>> \o ReplaceFirst(Tail(s), pat, rep)

\* all strings over alphabet A of length at most n
StringsUpTo(A, n) == UNION {[1..k -> A] : k \in 0..n}

(***************************************************************************)
(* Path codec                                                              *)
(***************************************************************************)
PERCENT == <<"%">>
SLASH == <<"/">>
PERCENT25 == <<"%", "2", "5">>
PERCENT2F == <<"%", "2", "F">>

\* the same with the separator replaced once only
encodePathElementFirstOnly(s) ==
    ReplaceFirst(ReplaceAll(s, PERCENT, PERCENT25), SLASH, PERCENT2F)

encodePathElement(s) ==
    ReplaceAll(ReplaceAll(s, PERCENT, PERCENT25), SLASH, PERCENT2F)

\* the same with the two substitutions in the order of encoding
decodePathElementSameOrder(s) ==
    ReplaceAll(ReplaceAll(s, PERCENT25, PERCENT), PERCENT2F, SLASH)

decodePathElement(s) ==
    ReplaceAll(ReplaceAll(s, PERCENT2F, SLASH), PERCENT25, PERCENT)

(***************************************************************************)
(* URLs and POSIX path normalisation                                       *)
(*                                                                         *)
(* A URL is a record of its scheme, its host and its pathname. Only the    *)
(* characters of NameChars occur in the names of this model, so the parts  *)
(* of URL parsing that other characters trigger (":" for a scheme or a     *)
(* port, "?", "#", "\", "@", percent-encoded dots) are not modelled.       *)
(***************************************************************************)
\* String.prototype.split("/")
RECURSIVE Split(_)
Split(s) ==
    IF \A i \in 1..Len(s) : s[i] # "/" THEN <<s>>
    ELSE LET k == CHOOSE i \in 1..Len(s) :
                      /\ s[i] = "/"
                      /\ \A j \in 1..(i - 1) : s[j] # "/"
         IN <<SubSeq(s, 1, k - 1)>> \o Split(SubSeq(s, k + 1, Len(s)))

\* Array.prototype.join("/")
RECURSIVE JoinSegments(_)
JoinSegments(segs) ==
    IF Len(segs) = 0 THEN <<>>
    ELSE IF Len(segs) = 1 THEN segs[1]
    ELSE segs[1] \o SLASH \o JoinSegments(Tail(segs))

DOT == <<".">>
DOTDOT == <<".", ".">>

DropLast(q) == SubSeq(q, 1, Len(q) - 1)

\* normalizeString of @std/path: the segments kept after dropping empty and
\* "." segments and resolving ".." against the segments kept so far.
RECURSIVE NormalizeSegments(_, _, _)
NormalizeSegments(segs, res, allowAboveRoot) ==
    IF Len(segs) = 0 THEN res
    ELSE LET seg == Head(segs)
             rest == Tail(segs)
         IN IF seg = <<>> \/ seg = DOT
            THEN NormalizeSegments(rest, res, allowAboveRoot)
            ELSE IF seg = DOTDOT
            THEN IF Len(res) > 0 /\ res[Len(res)] # DOTDOT
                 THEN NormalizeSegments(rest, DropLast(res), allowAboveRoot)
                 ELSE IF allowAboveRoot
                      THEN NormalizeSegments(rest, Append(res, DOTDOT), allowAboveRoot)
                      ELSE NormalizeSegments(rest, res, allowAboveRoot)
            ELSE NormalizeSegments(rest, Append(res, seg), allowAboveRoot)

\* normalize of @std/path/posix
normalize(path) ==
    IF Len(path) = 0 THEN DOT
    ELSE LET isAbsolute == path[1] = "/"
             trailingSeparator == path[Len(path)] = "/"
             body == JoinSegments(NormalizeSegments(Split(path), <<>>, ~isAbsolute))
             body2 == IF Len(body) = 0 /\ ~isAbsolute THEN DOT ELSE body
             body3 == IF Len(body2) > 0 /\ trailingSeparator
                      THEN body2 \o SLASH ELSE body2
         IN IF isAbsolute THEN SLASH \o body3 ELSE body3

\* The path state of the URL parser: each segment of the input is appended
\* to the URL's path, a "." segment is skipped and a ".." segment removes the
\* last segment of the path; a dot segment at the end leaves an empty segment.
RECURSIVE PathState(_, _)
PathState(path, segs) ==
    IF Len(segs) = 0 THEN path
    ELSE LET seg == Head(segs)
             isLast == Len(segs) = 1
         IN IF seg = DOTDOT
            THEN PathState(IF isLast THEN Append(DropLast(path), <<>>)
                                     ELSE DropLast(path), Tail(segs))
            ELSE IF seg = DOT
            THEN PathState(IF isLast THEN Append(path, <<>>) ELSE path, Tail(segs))
            ELSE PathState(Append(path, seg), Tail(segs))

\* the pathname getter: "/" before every segment of the URL's path
Pathname(pathList) == SLASH \o JoinSegments(pathList)

\* the segments of a pathname (which always starts with "/")
PathList(pathname) == Split(Tail(pathname))

\* the pathname setter of a URL with a special scheme: the path is emptied
\* and the string is parsed from the path start state
SetPathname(url, s) ==
    LET input == IF Len(s) > 0 /\ s[1] = "/" THEN Tail(s) ELSE s
    IN [url EXCEPT !.path = Pathname(PathState(<<>>, Split(input)))]

\* the number of "/" characters at the start of s
RECURSIVE LeadingSlashes(_)
LeadingSlashes(s) ==
    IF Len(s) > 0 /\ s[1] = "/" THEN 1 + LeadingSlashes(Tail(s)) ELSE 0

InvalidUrl == [ok |-> FALSE, url |-> [scheme |-> "", host |-> <<>>, path |-> <<>>]]

\* host state onwards: the host is the input up to the next "/", the rest
\* is the path. A special URL other than file: needs a non-empty host.
ParseHostAndPath(scheme, s) ==
    LET parts == Split(s)
        host == Head(parts)
    IN IF host = <<>> /\ scheme # "file"
       THEN InvalidUrl
       ELSE [ok |-> TRUE,
             url |-> [scheme |-> scheme, host |-> host,
                      path |-> Pathname(PathState(<<>>,
                                 IF Len(parts) = 1 THEN <<<<>>>> ELSE Tail(parts)))]]

\* new URL(name, base) for a name without a scheme: relative state, relative
\* slash state and file state of the URL parser
NewUrl(name, base) ==
    LET slashes == LeadingSlashes(name)
        basePath == PathList(base.path)
    IN IF Len(name) = 0
       THEN [ok |-> TRUE, url |-> base]
       ELSE IF slashes = 0
       THEN \* the name extends the base's path without its last segment
            [ok |-> TRUE,
             url |-> [base EXCEPT
                 !.path = Pathname(PathState(DropLast(basePath), Split(name)))]]
       ELSE IF slashes = 1
       THEN \* the name replaces the base's path
            [ok |-> TRUE,
             url |-> [base EXCEPT
                 !.path = Pathname(PathState(<<>>, Split(Tail(name))))]]
       ELSE IF base.scheme = "file"
       THEN \* file host state: exactly two slashes start the host
            ParseHostAndPath("file", SubSeq(name, 3, Len(name)))
       ELSE \* special authority ignore slashes state: every slash is skipped
            ParseHostAndPath(base.scheme, SubSeq(name, slashes + 1, Len(name)))

(***************************************************************************)
(* DirectoryReference                                                      *)
(***************************************************************************)
\* the constructor without the call of normalize
DirectoryReferenceAsGiven(directoryUrl) ==
    IF EndsWith(directoryUrl.path, SLASH)
    THEN [canonicalUrl |-> SetPathname(directoryUrl,
                              SubSeq(directoryUrl.path, 1, Len(directoryUrl.path) - 1)),
          urlWithTrailingSlash |-> directoryUrl]
    ELSE [canonicalUrl |-> directoryUrl,
          urlWithTrailingSlash |-> SetPathname(directoryUrl, directoryUrl.path \o SLASH)]

\* the constructor: the canonical URL and the URL with a trailing slash
DirectoryReference(directoryUrl) ==
    LET normalizedUrl == SetPathname(directoryUrl, normalize(directoryUrl.path))
    IN IF EndsWith(normalizedUrl.path, SLASH)
       THEN [canonicalUrl |-> SetPathname(normalizedUrl,
                                 SubSeq(normalizedUrl.path, 1, Len(normalizedUrl.path) - 1)),
             urlWithTrailingSlash |-> normalizedUrl]
       ELSE [canonicalUrl |-> normalizedUrl,
             urlWithTrailingSlash |-> SetPathname(normalizedUrl, normalizedUrl.path \o SLASH)]

NoError == [candidatePath |-> <<>>, escapedPath |-> <<>>, enclosingPath |-> <<>>]

\* the containment test of getContentsUrl made against the root
ContainedInRoot(ref, pathname) == StartsWith(pathname, SLASH)

\* the containment test of getContentsUrl made against the canonical path
\* instead of the path with a trailing slash
ContainedInCanonical(ref, pathname) == StartsWith(pathname, ref.canonicalUrl.path)

\* the containment test of getContentsUrl
Contained(ref, pathname) == StartsWith(pathname, ref.urlWithTrailingSlash.path)

\* getContentsUrl refusing every name that has a ".." segment
getContentsUrlNoTraversal(ref, name) ==
    LET parsed == NewUrl(name, ref.urlWithTrailingSlash)
        contentsUrl == SetPathname(parsed.url, normalize(parsed.url.path))
    IN IF ~parsed.ok
       THEN [outcome |-> "TypeError", url |-> parsed.url, error |-> NoError]
       ELSE IF \/ ~Contained(ref, contentsUrl.path)
               \/ \E i \in 1..Len(Split(name)) : Split(name)[i] = DOTDOT
       THEN [outcome |-> "DirectoryEscapeError", url |-> contentsUrl,
             error |-> [candidatePath |-> name,
                        escapedPath |-> contentsUrl.path,
                        enclosingPath |-> ref.canonicalUrl.path]]
       ELSE [outcome |-> "ok", url |-> contentsUrl, error |-> NoError]

\* getContentsUrl: the URL of the contents, or the error thrown
getContentsUrl(ref, name) ==
    LET parsed == NewUrl(name, ref.urlWithTrailingSlash)
        contentsUrl == SetPathname(parsed.url, normalize(parsed.url.path))
    IN IF ~parsed.ok
       THEN [outcome |-> "TypeError", url |-> parsed.url, error |-> NoError]
       ELSE IF ~Contained(ref, contentsUrl.path)
       THEN [outcome |-> "DirectoryEscapeError", url |-> contentsUrl,
             error |-> [candidatePath |-> name,
                        escapedPath |-> contentsUrl.path,
                        enclosingPath |-> ref.canonicalUrl.path]]
       ELSE [outcome |-> "ok", url |-> contentsUrl, error |-> NoError]

NoString == <<"?">>
NoUrl == [scheme |-> "", host |-> <<>>, path |-> <<>>]
NoRef == [canonicalUrl |-> NoUrl, urlWithTrailingSlash |-> NoUrl]
NoResult == [outcome |-> "none", url |-> NoUrl, error |-> NoError]

(***************************************************************************)
(* Options (ValueStorageHandlerOptions) and mergeOptions                   *)
(*                                                                         *)
(* An options object is a record of its four keys; "unset" is a key that   *)
(* is absent, and defined = FALSE is the value undefined.                  *)
(***************************************************************************)
Undefined ==
    [defined |-> FALSE, mode |-> "unset", signal |-> "unset",
     strict |-> "unset", propertyNameEncoder |-> "unset"]

EmptyOptions == [Undefined EXCEPT !.defined = TRUE]

OptionKeys == {"mode", "signal", "strict", "propertyNameEncoder"}

\* the merge with the default options winning
mergeOptionsDefaultsWin(defaults, options) ==
    IF ~defaults.defined THEN options
    ELSE IF ~options.defined THEN defaults
    ELSE [defined |-> TRUE,
          mode |-> IF defaults.mode # "unset" THEN defaults.mode ELSE options.mode,
          signal |-> IF defaults.signal # "unset" THEN defaults.signal ELSE options.signal,
          strict |-> IF defaults.strict # "unset" THEN defaults.strict ELSE options.strict,
          propertyNameEncoder |->
              IF defaults.propertyNameEncoder # "unset"
              THEN defaults.propertyNameEncoder ELSE options.propertyNameEncoder]

\* mergeOptions: Object.assign of the defaults, then of the options
mergeOptions(defaults, options) ==
    IF ~defaults.defined THEN options
    ELSE IF ~options.defined THEN defaults
    ELSE [defined |-> TRUE,
          mode |-> IF options.mode # "unset" THEN options.mode ELSE defaults.mode,
          signal |-> IF options.signal # "unset" THEN options.signal ELSE defaults.signal,
          strict |-> IF options.strict # "unset" THEN options.strict ELSE defaults.strict,
          propertyNameEncoder |->
              IF options.propertyNameEncoder # "unset"
              THEN options.propertyNameEncoder ELSE defaults.propertyNameEncoder]

(***************************************************************************)
(* Values                                                                  *)
(*                                                                         *)
(* A value is a record of its kind, its characters (a string) and its      *)
(* properties in iteration order (an object).                              *)
(***************************************************************************)
NoValue == [kind |-> "none", text |-> <<>>, entries |-> <<>>]
Primitive(kind) == [kind |-> kind, text |-> <<>>, entries |-> <<>>]
StringValue(text) == [kind |-> "string", text |-> text, entries |-> <<>>]
ObjectValue(entries) == [kind |-> "object", text |-> <<>>, entries |-> entries]
Property(key, value) == [key |-> key, value |-> value]

\* a value is a plain object: not an array, not null, not a primitive
isPlainObject(candidate) == candidate.kind = "object"

\* isObject: typeof (candidate === "object") is the string "boolean", which
\* is truthy, so only null and arrays are excluded
isObject(candidate) ==
    /\ TRUE
    /\ candidate.kind # "null"
    /\ candidate.kind # "array"

Digits == <<"0", "1", "2", "3", "4", "5", "6", "7", "8", "9">>

\* Object.entries: the properties of an object, the indexed characters of a
\* string, nothing for a number or a boolean; it throws on undefined
ObjectEntriesThrows(value) == value.kind = "undefined"

ObjectEntriesReversed(value) ==
    [i \in 1..Len(value.entries) |-> value.entries[Len(value.entries) + 1 - i]]

ObjectEntries(value) ==
    IF value.kind = "string"
    THEN [i \in 1..Len(value.text) |->
              Property(<<Digits[i]>>, StringValue(<<value.text[i]>>))]
    ELSE value.entries

\* encodeURIComponent on the characters of this model
RECURSIVE encodeURIComponent(_)
encodeURIComponent(s) ==
    IF Len(s) = 0 THEN <<>>
    ELSE (IF s[1] = "/" THEN PERCENT2F
          ELSE IF s[1] = "%" THEN PERCENT25
          ELSE <<s[1]>>) \o encodeURIComponent(Tail(s))

\* the property name encoders of the model: the default, String.toLowerCase
\* (the identity on the keys of this model) and one that answers ".."
ApplyEncoder(encoder, key) ==
    IF encoder = "unset" THEN encodePathElement(key)
    ELSE IF encoder = "toLowerCase" THEN key
    ELSE DOTDOT

(***************************************************************************)
(* Errors and the settlement of the top-level promise                      *)
(***************************************************************************)
NoFailure == [name |-> "none", thrownBy |-> "none", pathInSource |-> <<>>, escape |-> NoError]

Failure(name, thrownBy, path, escape) ==
    [name |-> name, thrownBy |-> thrownBy, pathInSource |-> path, escape |-> escape]

\* an error and the number of calls that had been made when it was thrown
NoRaised == [error |-> NoFailure, after |-> 0]
Raised(error, after) == [error |-> error, after |-> after]

\* errors the directory creator and the candidate handlers reject with
CollaboratorErrors ==
    { Failure("PermissionDenied", "collaborator", <<>>, NoError),
      Failure("NotFound", "collaborator", <<>>, NoError) }

Pending == [state |-> "pending", error |-> NoFailure]
Resolved == [state |-> "resolved", error |-> NoFailure]
Rejected(error) == [state |-> "rejected", error |-> error]

(***************************************************************************)
(* DirectoryValueStorageHandler                                            *)
(***************************************************************************)
canStoreValue(pathInSource, destinationUrl, value) == isObject(value)

\* a storeValue invocation that has just been called
NewInvocation(pathInSource, destinationUrl, value, options) ==
    [pc |-> "enter",
     pathInSource |-> pathInSource,
     destinationUrl |-> destinationUrl,
     value |-> value,
     options |-> options,
     directoryReference |-> NoRef,
     mergedOptions |-> Undefined,
     entries |-> <<>>,
     index |-> 1,
     candidate |-> 1,
     nestedPathInSource |-> <<>>,
     nestedDestinationUrl |-> NoUrl]

Top == stack[Len(stack)]
Running == Len(stack) > 0 /\ outcome.state = "pending"

SetTop(frame) == [stack EXCEPT ![Len(stack)] = frame]

\* an error that only ends the current property: the loop goes on
RejectSuppressed(error) ==
    /\ stack' = SetTop([Top EXCEPT !.pc = "loop", !.index = Top.index + 1])
    /\ outcome' = outcome
    /\ raised' = Raised(error, Len(calls))

\* an error thrown in any invocation rejects every enclosing invocation
Reject(error) ==
    /\ stack' = <<>>
    /\ outcome' = Rejected(error)
    /\ raised' = Raised(error, Len(calls))

\* a call received by a collaborator; depth and index tell the invocation
\* and the property it was made for, and a createDirectory call is logged
\* with the path and the value of the invocation that made it
Call(op, handler, pathInSource, url, value, options, recursive, result) ==
    [op |-> op, handler |-> handler, pathInSource |-> pathInSource, url |-> url,
     value |-> value, options |-> options, recursive |-> recursive, result |-> result,
     depth |-> Len(stack), index |-> Top.index]

\* options?.signal?.throwIfAborted()
Aborted(frame) == frame.options.signal = "aborted"

\* the nested path with the key left as it is
NestedPathUnencoded(pathInSource, nestedKey) == pathInSource \o SLASH \o nestedKey

\* `${pathInSource}/${encodePathElement(nestedKey)}`
NestedPath(pathInSource, nestedKey) ==
    pathInSource \o SLASH \o encodePathElement(nestedKey)

\* encodeURIComponent(propertyNameEncoder(nestedKey))
NestedName(mergedOptions, nestedKey) ==
    encodeURIComponent(ApplyEncoder(mergedOptions.propertyNameEncoder, nestedKey))

\* the caller asks handler.canStoreValue(pathInSource, destinationUrl, value)
\* instead of calling storeValue
AskCanStore ==
    /\ Running
    /\ Len(stack) = 1
    /\ Top.pc = "enter"
    /\ answered = "none"
    /\ answered' = IF canStoreValue(rootPath, rootDestination, rootValue)
                   THEN "true" ELSE "false"
    /\ stack' = <<>>
    /\ UNCHANGED <<calls, outcome, raised, settled, configVars, codecVars, resolverVars, extraVars>>

\* createDirectory called on the destination as given, not recursively
CreateDirectoryCallAsGiven(frame, directoryReference) ==
    Call("createDirectory", "creator", frame.pathInSource,
         frame.destinationUrl, frame.value, Undefined, FALSE, TRUE)

\* this.#directoryCreator.createDirectory(directoryReference.canonicalUrl,
\* { recursive: true })
CreateDirectoryCall(frame, directoryReference) ==
    Call("createDirectory", "creator", frame.pathInSource,
         directoryReference.canonicalUrl, frame.value, Undefined, TRUE, TRUE)

\* storeValue up to its first await: the signal test, the type test, the
\* directory reference, the merged options and the createDirectory call
Enter ==
    /\ Running
    /\ Top.pc = "enter"
    /\ IF Aborted(Top)
       THEN /\ Reject(Failure("AbortError", "throwIfAborted", Top.pathInSource, NoError))
            /\ UNCHANGED calls
       ELSE IF ~isObject(Top.value)
       THEN /\ Reject(Failure("TypeError", "storeValue", Top.pathInSource, NoError))
            /\ UNCHANGED calls
       ELSE LET directoryReference == DirectoryReference(Top.destinationUrl)
                mergedOptions == mergeOptions(defaultOptions, Top.options)
            IN /\ calls' = Append(calls, CreateDirectoryCall(Top, directoryReference))
               /\ stack' = SetTop([Top EXCEPT
                       !.pc = "awaitCreate",
                       !.directoryReference = directoryReference,
                       !.mergedOptions = mergedOptions])
               /\ UNCHANGED <<outcome, raised>>
    /\ UNCHANGED <<configVars, answered, settled, codecVars, resolverVars, extraVars>>

\* createDirectory resolves and Object.entries(value) is taken
CreateDirectoryResolves ==
    /\ Running
    /\ Top.pc = "awaitCreate"
    /\ IF ObjectEntriesThrows(Top.value)
       THEN Reject(Failure("TypeError", "Object.entries", <<>>, NoError))
       ELSE /\ stack' = SetTop([Top EXCEPT
                       !.pc = "loop",
                       !.entries = ObjectEntries(Top.value),
                       !.index = 1])
            /\ UNCHANGED <<outcome, raised>>
    /\ settled' = settled + 1
    /\ UNCHANGED <<calls, configVars, answered, codecVars, resolverVars, extraVars>>

\* a createDirectory failure that is ignored: the properties are stored anyway
CreationFailedIgnored(error) ==
    /\ stack' = SetTop([Top EXCEPT !.pc = "loop",
                                   !.entries = ObjectEntries(Top.value),
                                   !.index = 1])
    /\ outcome' = outcome
    /\ raised' = Raised(error, Len(calls))

\* await createDirectory(...) throws what the directory creator rejected with
CreationFailed(error) == Reject(error)

\* createDirectory rejects
CreateDirectoryRejects ==
    /\ Running
    /\ Top.pc = "awaitCreate"
    /\ \E error \in CollaboratorErrors : CreationFailed(error)
    /\ settled' = settled + 1
    /\ UNCHANGED <<calls, configVars, answered, codecVars, resolverVars, extraVars>>

\* the head of the loop body: the nested path and the nested destination
BeginProperty ==
    /\ Running
    /\ Top.pc = "loop"
    /\ Top.index <= Len(Top.entries)
    /\ LET nestedKey == Top.entries[Top.index].key
           nestedPathInSource == NestedPath(Top.pathInSource, nestedKey)
           contents == getContentsUrl(Top.directoryReference,
                                      NestedName(Top.mergedOptions, nestedKey))
       IN IF contents.outcome # "ok"
          THEN Reject(Failure(contents.outcome, "getContentsUrl",
                              nestedPathInSource, contents.error))
          ELSE /\ stack' = SetTop([Top EXCEPT
                       !.pc = "scan",
                       !.candidate = 1,
                       !.nestedPathInSource = nestedPathInSource,
                       !.nestedDestinationUrl = contents.url])
               /\ UNCHANGED <<outcome, raised>>
    /\ UNCHANGED <<calls, configVars, answered, settled, codecVars, resolverVars, extraVars>>

\* the candidate's storeValue called without await: on to the next property
FrameAwaitingStoreNoAwait(frame) ==
    [frame EXCEPT !.pc = "loop", !.index = frame.index + 1]

\* await candidateHandler.storeValue(...): suspended until it settles
FrameAwaitingStore(frame) == [frame EXCEPT !.pc = "awaitStore"]

\* one turn of the candidate loop: canStoreValue and, when it answers true,
\* the storeValue call on the same handler
ConsultCandidate ==
    /\ Running
    /\ Top.pc = "scan"
    /\ Top.candidate <= Len(handlers)
    /\ \E answer \in BOOLEAN :
          LET candidateHandler == handlers[Top.candidate]
              nestedValue == Top.entries[Top.index].value
              asked == Call("canStoreValue", candidateHandler, Top.nestedPathInSource,
                            Top.nestedDestinationUrl, nestedValue, Undefined,
                            FALSE, answer)
              stored == Call("storeValue", candidateHandler, Top.nestedPathInSource,
                             Top.nestedDestinationUrl, nestedValue, Top.mergedOptions,
                             FALSE, TRUE)
          IN IF answer
             THEN /\ calls' = calls \o <<asked, stored>>
                  /\ stack' = SetTop(FrameAwaitingStore(Top))
             ELSE /\ calls' = Append(calls, asked)
                  /\ stack' = SetTop([Top EXCEPT !.candidate = Top.candidate + 1])
    /\ UNCHANGED <<outcome, raised, configVars, answered, settled, codecVars, resolverVars, extraVars>>

\* after the candidate's storeValue, without the break: the next candidate
FrameAfterStoreNoBreak(frame) ==
    [frame EXCEPT !.pc = "scan", !.candidate = frame.candidate + 1]

\* after the candidate's storeValue: stored = true; break
FrameAfterStore(frame) ==
    [frame EXCEPT !.pc = "loop", !.index = frame.index + 1]

\* the candidate's storeValue resolves
CandidateStoreResolves ==
    /\ Running
    /\ Top.pc = "awaitStore"
    /\ stack' = SetTop(FrameAfterStore(Top))
    /\ settled' = settled + 1
    /\ UNCHANGED <<calls, outcome, raised, configVars, answered, codecVars, resolverVars, extraVars>>

\* the candidate's storeValue rejects
CandidateStoreRejects ==
    /\ Running
    /\ Top.pc = "awaitStore"
    /\ \E error \in CollaboratorErrors : Reject(error)
    /\ settled' = settled + 1
    /\ UNCHANGED <<calls, configVars, answered, codecVars, resolverVars, extraVars>>

NoCandidateStored ==
    /\ Running
    /\ Top.pc = "scan"
    /\ Top.candidate > Len(handlers)

\* the nested invocation called without the merged options
NestedInvocationNoOptions(frame) ==
    NewInvocation(frame.nestedPathInSource, frame.nestedDestinationUrl,
                  frame.entries[frame.index].value, Undefined)

\* this.storeValue(nestedPathInSource, nestedDestinationUrl, nestedValue,
\* mergedOptions)
NestedInvocation(frame) ==
    NewInvocation(frame.nestedPathInSource, frame.nestedDestinationUrl,
                  frame.entries[frame.index].value, frame.mergedOptions)

\* no candidate stored the value and this handler can: this.storeValue(...)
StoreNested ==
    /\ NoCandidateStored
    /\ canStoreValue(Top.nestedPathInSource, Top.nestedDestinationUrl,
                     Top.entries[Top.index].value)
    /\ Len(stack) < MaxDepth
    /\ stack' = Append(SetTop([Top EXCEPT !.pc = "awaitSelf"]), NestedInvocation(Top))
    /\ UNCHANGED <<calls, outcome, raised, configVars, answered, settled, codecVars, resolverVars, extraVars>>

\* no candidate stored the value, this handler cannot, and strict is set
ThrowNoHandler ==
    /\ NoCandidateStored
    /\ ~canStoreValue(Top.nestedPathInSource, Top.nestedDestinationUrl,
                      Top.entries[Top.index].value)
    /\ Top.mergedOptions.strict = "true"
    /\ Reject(Failure("Error", "strict", Top.nestedPathInSource, NoError))
    /\ UNCHANGED <<calls, configVars, answered, settled, codecVars, resolverVars, extraVars>>

\* no candidate stored the value, this handler cannot, and strict is not set
SkipProperty ==
    /\ NoCandidateStored
    /\ ~canStoreValue(Top.nestedPathInSource, Top.nestedDestinationUrl,
                      Top.entries[Top.index].value)
    /\ Top.mergedOptions.strict # "true"
    /\ stack' = SetTop([Top EXCEPT !.pc = "loop", !.index = Top.index + 1])
    /\ UNCHANGED <<calls, outcome, raised, configVars, answered, settled, codecVars, resolverVars, extraVars>>

\* the loop is over: the invocation resolves, and its caller goes on with
\* its next property
Return ==
    /\ Running
    /\ Top.pc = "loop"
    /\ Top.index > Len(Top.entries)
    /\ IF Len(stack) = 1
       THEN /\ stack' = <<>>
            /\ outcome' = Resolved
            /\ UNCHANGED raised
       ELSE /\ LET caller == stack[Len(stack) - 1]
               IN stack' = Append(SubSeq(stack, 1, Len(stack) - 2),
                                  [caller EXCEPT !.pc = "loop",
                                                 !.index = caller.index + 1])
            /\ UNCHANGED <<outcome, raised>>
    /\ UNCHANGED <<calls, configVars, answered, settled, codecVars, resolverVars, extraVars>>

(***************************************************************************)
(* Exercising the path codec                                               *)
(***************************************************************************)
\* the characters the codec treats specially, and those of its escapes
CodecChars == {"%", "/", "2", "5", "F"}


CodecIdle ==
    /\ element = NoString
    /\ encoded = NoString
    /\ decoded = NoString
    /\ codecPc = "idle"

ResolverIdle ==
    /\ dirInput = NoUrl
    /\ dirRef = NoRef
    /\ dirName = NoString
    /\ dirResult = NoResult
    /\ resolverPc = "idle"

StoreIdle ==
    /\ handlers = <<>>
    /\ defaultOptions = Undefined
    /\ rootPath = NoString
    /\ rootDestination = NoUrl
    /\ rootValue = NoValue
    /\ rootOptions = Undefined
    /\ stack = <<>>
    /\ calls = <<>>
    /\ outcome = Resolved
    /\ answered = "none"
    /\ callerHandlers = <<>>
    /\ construction = "none"
    /\ constructedWith = <<>>
    /\ raised = NoRaised
    /\ settled = 0

\* no storeValue call
NoStoreCall ==
    [pathInSource |-> <<>>, destinationUrl |-> NoUrl, value |-> NoValue,
     options |-> Undefined]

NestedIdle ==
    /\ outerOptions = Undefined
    /\ innerOptions = Undefined
    /\ callOptions = Undefined
    /\ leafValue = NoValue
    /\ handedDown = NoStoreCall
    /\ nestedPc = "idle"
    /\ nestedOutcome = Resolved

MockIdle ==
    /\ defaultCanStoreValue = TRUE
    /\ mockCalls = <<>>

FluentIdle ==
    /\ wrappers = <<>>
    /\ requests = <<>>

vars == <<codecVars, resolverVars, storeVars, extraVars>>

CodecInit ==
    /\ element \in StringsUpTo(CodecChars, MaxLen)
    /\ encoded = NoString
    /\ decoded = NoString
    /\ codecPc = "start"
    /\ ResolverIdle
    /\ StoreIdle
    /\ NestedIdle
    /\ MockIdle
    /\ FluentIdle

Encode ==
    /\ codecPc = "start"
    /\ encoded' = encodePathElement(element)
    /\ codecPc' = "encoded"
    /\ UNCHANGED <<element, decoded, resolverVars, storeVars, extraVars>>

Decode ==
    /\ codecPc = "encoded"
    /\ decoded' = decodePathElement(encoded)
    /\ codecPc' = "decoded"
    /\ UNCHANGED <<element, encoded, resolverVars, storeVars, extraVars>>

CodecNext ==
    \/ Encode
    \/ Decode

SpecCodec == CodecInit /\ [][CodecNext]_vars

(***************************************************************************)
(* Exercising DirectoryReference                                           *)
(***************************************************************************)
\* the characters of names: a letter, the dot and the separator
NameChars == {"a", ".", "/"}

FileUrl(pathname) == [scheme |-> "file", host |-> <<>>, path |-> pathname]
HttpUrl(pathname) == [scheme |-> "http", host |-> <<"h">>, path |-> pathname]

\* directory URLs written with dot segments: /d/../a/ and /d/./a
DottedPaths ==
    { <<"/", "d", "/", ".", ".", "/", "a", "/">>,
      <<"/", "d", "/", ".", "/", "a">> }

\* pathnames of parsed URLs: no dot segments, with and without empty segments
\* and a trailing separator
DirectoryPaths ==
    { <<"/">>,
      <<"/", "d">>,
      <<"/", "d", "/">>,
      <<"/", "d", "/", "a">>,
      <<"/", "d", "/", "/", "a", "/">> }
    \cup {NewUrl(text, [scheme |-> "file", host |-> <<>>, path |-> SLASH]).url.path :
             text \in DottedPaths}

DirectoryUrls ==
    {FileUrl(p) : p \in DirectoryPaths} \cup {HttpUrl(p) : p \in DirectoryPaths}

ResolverInit ==
    /\ dirInput \in DirectoryUrls
    /\ dirName \in StringsUpTo(NameChars, MaxNameLen)
    /\ dirRef = NoRef
    /\ dirResult = NoResult
    /\ resolverPc = "start"
    /\ CodecIdle
    /\ StoreIdle
    /\ NestedIdle
    /\ MockIdle
    /\ FluentIdle

\* new DirectoryReference(directoryUrl)
Construct ==
    /\ resolverPc = "start"
    /\ dirRef' = DirectoryReference(dirInput)
    /\ resolverPc' = "constructed"
    /\ UNCHANGED <<dirInput, dirName, dirResult, codecVars, storeVars, extraVars>>

\* directoryReference.getContentsUrl(name)
GetContents ==
    /\ resolverPc = "constructed"
    /\ dirResult' = getContentsUrl(dirRef, dirName)
    /\ resolverPc' = "returned"
    /\ UNCHANGED <<dirInput, dirRef, dirName, codecVars, storeVars, extraVars>>

ResolverNext ==
    \/ Construct
    \/ GetContents

SpecResolver == ResolverInit /\ [][ResolverNext]_vars

(***************************************************************************)
(* Exercising DirectoryValueStorageHandler.storeValue                      *)
(***************************************************************************)
NumberValue == Primitive("number")
NullValue == Primitive("null")
ArrayValue == Primitive("array")
UndefinedValue == Primitive("undefined")
TextValue == StringValue(<<"b">>)
EmptyObject == ObjectValue(<<>>)

\* values that are not plain objects
Leaves == {NumberValue, NullValue, ArrayValue, UndefinedValue, TextValue}

KeyA == <<"a">>
KeyB == <<"b">>
KeyDot == <<".">>
KeyDotDot == <<".", ".">>
KeySlash == <<"a", "/", "b">>
KeyEmpty == <<>>

\* objects with one property
SingleObjects ==
    {ObjectValue(<<Property(k, v)>>) :
         k \in {KeyA, KeyDotDot, KeySlash}, v \in Leaves \cup {EmptyObject}}

\* objects with nested objects and with several properties
NestedObjects ==
    { ObjectValue(<<Property(KeyA, ObjectValue(<<Property(KeyB, TextValue)>>))>>),
      ObjectValue(<<Property(KeyA, ObjectValue(<<Property(KeyDotDot, NumberValue)>>))>>),
      ObjectValue(<<Property(KeyDot, ObjectValue(<<Property(KeyB, NullValue)>>))>>),
      ObjectValue(<<Property(KeyA, NullValue), Property(KeyB, EmptyObject)>>),
      ObjectValue(<<Property(KeyA, EmptyObject), Property(KeyB, ArrayValue)>>),
      ObjectValue(<<Property(KeyEmpty, ArrayValue), Property(KeyDot, NullValue)>>),
      ObjectValue(<<Property(KeyA, ObjectValue(<<Property(KeyA, NullValue)>>)),
                    Property(KeyDotDot, NullValue)>>) }

\* trees of plain objects only
ObjectTrees ==
    { ObjectValue(<<Property(KeyA, ObjectValue(<<Property(KeyB, EmptyObject)>>)),
                    Property(KeyB, EmptyObject)>>) }

RootValues ==
    Leaves \cup {EmptyObject} \cup SingleObjects \cup NestedObjects \cup ObjectTrees

RootDestinations ==
    { FileUrl(<<"/", "d">>),
      FileUrl(<<"/", "d", "/", "/", "a", "/">>),
      HttpUrl(<<"/">>) }

HandlerNames == <<"h1", "h2", "h3", "h4">>

HandlerLists == {SubSeq(HandlerNames, 1, n) : n \in 0..MaxHandlers}

DefaultOptionChoices ==
    { Undefined,
      [EmptyOptions EXCEPT !.strict = "true"],
      [EmptyOptions EXCEPT !.strict = "false", !.propertyNameEncoder = "dotdot"],
      [EmptyOptions EXCEPT !.mode = "0o666", !.signal = "S"],
      [EmptyOptions EXCEPT !.signal = "aborted"] }

CallOptionChoices ==
    { Undefined,
      EmptyOptions,
      [EmptyOptions EXCEPT !.strict = "true"],
      [EmptyOptions EXCEPT !.strict = "false"],
      [EmptyOptions EXCEPT !.mode = "0o777", !.propertyNameEncoder = "toLowerCase"],
      [EmptyOptions EXCEPT !.signal = "aborted"] }

\* a handler has been constructed and storeValue has been called on it
Init ==
    /\ handlers \in HandlerLists
    /\ defaultOptions \in DefaultOptionChoices
    /\ rootPath \in {<<>>, <<"/", "r">>}
    /\ rootDestination \in RootDestinations
    /\ rootValue \in RootValues
    /\ rootOptions \in CallOptionChoices
    /\ stack = <<NewInvocation(rootPath, rootDestination, rootValue, rootOptions)>>
    /\ calls = <<>>
    /\ outcome = Pending
    /\ answered = "none"
    /\ callerHandlers = handlers
    /\ construction = "constructor"
    /\ constructedWith = handlers
    /\ raised = NoRaised
    /\ settled = 0
    /\ CodecIdle
    /\ ResolverIdle
    /\ NestedIdle
    /\ MockIdle
    /\ FluentIdle

Next ==
    \/ AskCanStore
    \/ Enter
    \/ CreateDirectoryResolves
    \/ CreateDirectoryRejects
    \/ BeginProperty
    \/ ConsultCandidate
    \/ CandidateStoreResolves
    \/ CandidateStoreRejects
    \/ StoreNested
    \/ ThrowNoHandler
    \/ SkipProperty
    \/ Return

Spec == Init /\ [][Next]_vars

(***************************************************************************)
(* Building the handler: the class constructor, the factory                *)
(* newDirectoryObjectStorageHandler and storeObjectToDirectory             *)
(***************************************************************************)
\* Array.from(handlers): a new array with the same elements
ArrayFrom(iterable) == [i \in 1..Len(iterable) |-> iterable[i]]

\* the fields of new DirectoryValueStorageHandler(name, handlers,
\* directoryCreator, defaultOptions): this.#handlers = handlers
NewDirectoryValueStorageHandler(handlerArray, defaults) ==
    [handlers |-> handlerArray, defaultOptions |-> defaults]

\* newDirectoryObjectStorageHandler(handlers, directoryCreator, name,
\* defaultOptions): the constructor called on handlersCopy
newDirectoryObjectStorageHandler(handlerArray, defaults) ==
    NewDirectoryValueStorageHandler(ArrayFrom(handlerArray), defaults)

\* this.#handlers after a change of the caller's array, were it the same
\* array whatever built the handler
HeldAfterMutationShared(how, held, changed) == changed

\* this.#handlers after a change of the caller's array: the same array when
\* the constructor was given it, a copy when the factory made one
HeldAfterMutation(how, held, changed) ==
    IF how = "constructor" THEN changed ELSE held

\* storeObjectToDirectory calling storeValue without the options
StoreObjectInvocationNoOptions(destinationUrl, value, options) ==
    NewInvocation(<<>>, destinationUrl, value, Undefined)

\* handler.storeValue("", destinationUrl, value, options), through
\* FluentValueStorageHandler.storeValue, which hands every argument on
StoreObjectInvocation(destinationUrl, value, options) ==
    NewInvocation(<<>>, destinationUrl, value, options)

Reverse(list) == [i \in 1..Len(list) |-> list[Len(list) + 1 - i]]

\* the caller's array after one entry is removed, after the entries are
\* reordered, or after an entry is added
Mutations(list) ==
    (IF Len(list) > 0 THEN {Tail(list)} ELSE {})
        \cup (IF Len(list) > 1 THEN {Reverse(list)} ELSE {})
        \cup {Append(list, HandlerNames[Len(list) + 1])}

FactoryValues ==
    { ObjectValue(<<Property(KeyA, NullValue), Property(KeyB, EmptyObject)>>),
      ObjectValue(<<Property(KeyA, TextValue)>>) }

FactoryOptions ==
    { Undefined,
      [EmptyOptions EXCEPT !.strict = "true"],
      [EmptyOptions EXCEPT !.mode = "0o777", !.propertyNameEncoder = "toLowerCase"] }

FactoryDefaults ==
    { Undefined,
      [EmptyOptions EXCEPT !.mode = "0o666", !.signal = "S"] }

\* the caller holds a handler array and the arguments of a store call
FactoryInit ==
    /\ callerHandlers \in HandlerLists
    /\ construction = "none"
    /\ constructedWith = <<>>
    /\ handlers = <<>>
    /\ defaultOptions = Undefined
    /\ rootPath = NoString
    /\ rootDestination = FileUrl(<<"/", "d">>)
    /\ rootValue \in FactoryValues
    /\ rootOptions \in FactoryOptions
    /\ stack = <<>>
    /\ calls = <<>>
    /\ outcome = Pending
    /\ answered = "none"
    /\ raised = NoRaised
    /\ settled = 0
    /\ CodecIdle
    /\ ResolverIdle
    /\ NestedIdle
    /\ MockIdle
    /\ FluentIdle

\* new DirectoryValueStorageHandler(...) and then storeValue on it
ConstructAndStore ==
    /\ construction = "none"
    /\ \E defaults \in FactoryDefaults, path \in {<<>>, <<"/", "r">>} :
           LET handler == NewDirectoryValueStorageHandler(callerHandlers, defaults)
           IN /\ handlers' = handler.handlers
              /\ defaultOptions' = handler.defaultOptions
              /\ rootPath' = path
              /\ stack' = <<NewInvocation(path, rootDestination, rootValue, rootOptions)>>
    /\ construction' = "constructor"
    /\ constructedWith' = callerHandlers
    /\ UNCHANGED <<callerHandlers, rootDestination, rootValue, rootOptions, calls,
                   outcome, answered, raised, settled, codecVars, resolverVars, extraVars>>

\* newDirectoryObjectStorageHandler(...) and then storeValue on it
FactoryAndStore ==
    /\ construction = "none"
    /\ \E defaults \in FactoryDefaults, path \in {<<>>, <<"/", "r">>} :
           LET handler == newDirectoryObjectStorageHandler(callerHandlers, defaults)
           IN /\ handlers' = handler.handlers
              /\ defaultOptions' = handler.defaultOptions
              /\ rootPath' = path
              /\ stack' = <<NewInvocation(path, rootDestination, rootValue, rootOptions)>>
    /\ construction' = "newDirectoryObjectStorageHandler"
    /\ constructedWith' = callerHandlers
    /\ UNCHANGED <<callerHandlers, rootDestination, rootValue, rootOptions, calls,
                   outcome, answered, raised, settled, codecVars, resolverVars, extraVars>>

\* storeObjectToDirectory(destinationUrl, value, handlers, options)
StoreObjectToDirectory ==
    /\ construction = "none"
    /\ LET handler == newDirectoryObjectStorageHandler(callerHandlers, Undefined)
       IN /\ handlers' = handler.handlers
          /\ defaultOptions' = handler.defaultOptions
          /\ stack' = <<StoreObjectInvocation(rootDestination, rootValue, rootOptions)>>
          /\ rootPath' = stack'[1].pathInSource
    /\ construction' = "storeObjectToDirectory"
    /\ constructedWith' = callerHandlers
    /\ UNCHANGED <<callerHandlers, rootDestination, rootValue, rootOptions, calls,
                   outcome, answered, raised, settled, codecVars, resolverVars, extraVars>>

\* the caller changes its own array once, after the handler was built and
\* before storeValue has run
MutateCallerHandlers ==
    /\ construction # "none"
    /\ callerHandlers = constructedWith
    /\ Running
    /\ Len(stack) = 1
    /\ Top.pc = "enter"
    /\ \E changed \in Mutations(callerHandlers) :
           /\ callerHandlers' = changed
           /\ handlers' = HeldAfterMutation(construction, handlers, changed)
    /\ UNCHANGED <<defaultOptions, rootPath, rootDestination, rootValue, rootOptions,
                   construction, constructedWith, stack, calls, outcome, answered,
                   raised, settled, codecVars, resolverVars, extraVars>>

FactoryNext ==
    \/ ConstructAndStore
    \/ FactoryAndStore
    \/ StoreObjectToDirectory
    \/ MutateCallerHandlers
    \/ AskCanStore
    \/ Enter
    \/ CreateDirectoryResolves
    \/ CreateDirectoryRejects
    \/ BeginProperty
    \/ ConsultCandidate
    \/ CandidateStoreResolves
    \/ CandidateStoreRejects
    \/ StoreNested
    \/ ThrowNoHandler
    \/ SkipProperty
    \/ Return

SpecFactory == FactoryInit /\ [][FactoryNext]_vars

(***************************************************************************)
(* A directory handler among the candidates of another directory handler   *)
(*                                                                         *)
(* The outer handler has the inner handler as its only candidate, the      *)
(* inner handler has the mock handler as its only candidate, and the value *)
(* stored is {a: {b: leaf}}: the outer invocation stores property a with   *)
(* the inner handler, and the inner invocation offers property b to the    *)
(* mock handler.  The mock collaborators resolve at once.                  *)
(***************************************************************************)
NestedDestination == FileUrl(<<"/", "d">>)

NestedRoot ==
    ObjectValue(<<Property(KeyA, ObjectValue(<<Property(KeyB, leafValue)>>))>>)

\* a call pushed on the calls of the mock handler or the mock creator
MockCall(op, handler, pathInSource, destinationUrl, value, options) ==
    [op |-> op, handler |-> handler, pathInSource |-> pathInSource,
     destinationUrl |-> destinationUrl, value |-> value, options |-> options]

StoreCall(pathInSource, destinationUrl, value, options) ==
    [pathInSource |-> pathInSource, destinationUrl |-> destinationUrl,
     value |-> value, options |-> options]

\* storeValue from its first line to the head of the candidate loop of the
\* first property: the error thrown by the first two tests if any, the
\* createDirectory call, the merged options, the nested path and value and
\* the outcome of getContentsUrl
StoreValuePrologue(defaults, pathInSource, destinationUrl, value, options) ==
    [thrown |->
         IF options.signal = "aborted"
         THEN Failure("AbortError", "throwIfAborted", pathInSource, NoError)
         ELSE IF ~isObject(value)
         THEN Failure("TypeError", "storeValue", pathInSource, NoError)
         ELSE NoFailure,
     created |-> MockCall("createDirectory", "creator", pathInSource,
                          DirectoryReference(destinationUrl).canonicalUrl,
                          value, Undefined),
     mergedOptions |-> mergeOptions(defaults, options),
     nestedPathInSource |-> NestedPath(pathInSource, ObjectEntries(value)[1].key),
     nestedValue |-> ObjectEntries(value)[1].value,
     contents |-> getContentsUrl(DirectoryReference(destinationUrl),
                                 NestedName(mergeOptions(defaults, options),
                                            ObjectEntries(value)[1].key))]

\* the error that ends the invocation before its candidate loop, if any
PrologueError(run) ==
    IF run.thrown # NoFailure THEN run.thrown
    ELSE IF run.contents.outcome # "ok"
    THEN Failure(run.contents.outcome, "getContentsUrl", run.nestedPathInSource,
                 run.contents.error)
    ELSE NoFailure

\* the calls made before that error was thrown
CallsBefore(run) ==
    IF run.thrown = NoFailure THEN <<run.created>> ELSE <<>>

\* the candidate called with the options of the call instead of the merged ones
CandidateOptionsAsCalled(mergedOptions, options) == options

\* the last argument of candidateHandler.storeValue(...)
CandidateOptions(mergedOptions, options) == mergedOptions

\* the outer handler's storeValue("", D, {a: {b: leaf}}, callOptions), up to
\* its await of the inner handler's storeValue
OuterStoreValue ==
    /\ nestedPc = "outer"
    /\ \E run \in {StoreValuePrologue(outerOptions, <<>>, NestedDestination,
                                      NestedRoot, callOptions)} :
          IF PrologueError(run) # NoFailure
          THEN /\ nestedOutcome' = Rejected(PrologueError(run))
               /\ nestedPc' = "settled"
               /\ mockCalls' = mockCalls \o CallsBefore(run)
               /\ UNCHANGED handedDown
          ELSE IF canStoreValue(run.nestedPathInSource, run.contents.url,
                                run.nestedValue)
          THEN /\ handedDown' =
                      StoreCall(run.nestedPathInSource, run.contents.url,
                                run.nestedValue,
                                CandidateOptions(run.mergedOptions, callOptions))
               /\ nestedPc' = "inner"
               /\ mockCalls' = Append(mockCalls, run.created)
               /\ UNCHANGED nestedOutcome
          ELSE /\ nestedOutcome' =
                      IF run.mergedOptions.strict = "true"
                      THEN Rejected(Failure("Error", "strict",
                                            run.nestedPathInSource, NoError))
                      ELSE Resolved
               /\ nestedPc' = "settled"
               /\ mockCalls' = Append(mockCalls, run.created)
               /\ UNCHANGED handedDown
    /\ UNCHANGED <<outerOptions, innerOptions, callOptions, leafValue,
                   defaultCanStoreValue, fluentVars, codecVars, resolverVars,
                   storeVars>>

\* the inner handler's storeValue, called by the outer handler: the mock
\* handler is its only candidate, and the leaf is not a value it stores itself
InnerStoreValue ==
    /\ nestedPc = "inner"
    /\ \E run \in {StoreValuePrologue(innerOptions, handedDown.pathInSource,
                                      handedDown.destinationUrl, handedDown.value,
                                      handedDown.options)} :
          IF PrologueError(run) # NoFailure
          THEN /\ nestedOutcome' = Rejected(PrologueError(run))
               /\ nestedPc' = "settled"
               /\ mockCalls' = mockCalls \o CallsBefore(run)
          ELSE IF defaultCanStoreValue
          THEN /\ mockCalls' = mockCalls \o
                      << run.created,
                         MockCall("canStoreValue", "mock", run.nestedPathInSource,
                                  run.contents.url, run.nestedValue, Undefined),
                         MockCall("storeValue", "mock", run.nestedPathInSource,
                                  run.contents.url, run.nestedValue,
                                  CandidateOptions(run.mergedOptions,
                                                   handedDown.options)) >>
               /\ nestedPc' = "resume"
               /\ UNCHANGED nestedOutcome
          ELSE /\ ~canStoreValue(run.nestedPathInSource, run.contents.url,
                                 run.nestedValue)
               /\ mockCalls' = mockCalls \o
                      << run.created,
                         MockCall("canStoreValue", "mock", run.nestedPathInSource,
                                  run.contents.url, run.nestedValue, Undefined) >>
               /\ IF run.mergedOptions.strict = "true"
                  THEN /\ nestedOutcome' =
                              Rejected(Failure("Error", "strict",
                                               run.nestedPathInSource, NoError))
                       /\ nestedPc' = "settled"
                  ELSE /\ nestedPc' = "resume"
                       /\ UNCHANGED nestedOutcome
    /\ UNCHANGED <<outerOptions, innerOptions, callOptions, leafValue, handedDown,
                   defaultCanStoreValue, fluentVars, codecVars, resolverVars,
                   storeVars>>

\* the inner handler's storeValue has resolved: stored = true, break, and the
\* outer loop has no other property
OuterResumes ==
    /\ nestedPc = "resume"
    /\ nestedPc' = "settled"
    /\ nestedOutcome' = Resolved
    /\ UNCHANGED <<outerOptions, innerOptions, callOptions, leafValue, handedDown,
                   mockVars, fluentVars, codecVars, resolverVars, storeVars>>

\* the leaves that neither handler's canStoreValue accepts by itself
NestedLeaves == {NullValue, ArrayValue}

NestedInit ==
    /\ outerOptions \in DefaultOptionChoices
    /\ innerOptions \in DefaultOptionChoices
    /\ callOptions \in CallOptionChoices
    /\ leafValue \in NestedLeaves
    /\ handedDown = NoStoreCall
    /\ nestedPc = "outer"
    /\ nestedOutcome = Pending
    /\ defaultCanStoreValue \in BOOLEAN
    /\ mockCalls = <<>>
    /\ FluentIdle
    /\ CodecIdle
    /\ ResolverIdle
    /\ StoreIdle

NestedNext ==
    \/ OuterStoreValue
    \/ InnerStoreValue
    \/ OuterResumes

SpecNested == NestedInit /\ [][NestedNext]_vars

(***************************************************************************)
(* FluentValueStorageHandler                                               *)
(*                                                                         *)
(* A handler is 0, the mock handler, or the index of a fluent handler in   *)
(* wrappers.  A fluent handler is a frozen object of three fields: the     *)
(* handler it wraps, its name and its condition.  A condition is kept as   *)
(* the method that made it and that method's argument; the handler whose   *)
(* canStoreValue the condition calls is the wrapped handler itself.        *)
(* The caller chains its derivations: each one is made on the handler      *)
(* built last.                                                             *)
(***************************************************************************)
MaxWrappers == 3

MockName == "foo"
NotGiven == "<undefined>"

Condition(kind, patterns, type) == [kind |-> kind, patterns |-> patterns, type |-> type]

\* the condition of a handler built without one: the handler's canStoreValue
InnerCondition == Condition("inner", <<>>, "")

\* an instance of a class, as a value
InstanceValue(class) == [kind |-> "instance", text |-> <<class>>, entries |-> <<>>]

\* typeof value
TypeOf(value) ==
    IF value.kind \in {"number", "string", "undefined"} THEN value.kind
    ELSE "object"

\* value instanceof classConstructor
InstanceOf(value, classConstructor) ==
    IF classConstructor = "Object"
    THEN value.kind \in {"object", "array", "instance"}
    ELSE value.kind = "instance" /\ value.text = <<classConstructor>>

\* picomatch(pattern)(pathInSource), for patterns whose segments are a
\* literal or a lone "*" and paths whose segments are not empty and do not
\* begin with a dot: the same number of segments, each "*" or the same
Matches(pattern, pathInSource) ==
    LET globs == Split(pattern)
        segments == Split(pathInSource)
    IN /\ Len(globs) = Len(segments)
       /\ \A i \in 1..Len(globs) : globs[i] = <<"*">> \/ globs[i] = segments[i]

\* matchers.some(...) in place of matchers.every(...)
EveryAsSome(patterns, pathInSource) ==
    \E i \in 1..Len(patterns) : Matches(patterns[i], pathInSource)

\* matchers.every((m) => m(pathInSource))
Every(patterns, pathInSource) ==
    \A i \in 1..Len(patterns) : Matches(patterns[i], pathInSource)

\* the first matcher only in place of matchers.some(...)
SomeFirstOnly(patterns, pathInSource) ==
    Len(patterns) > 0 /\ Matches(patterns[1], pathInSource)

\* matchers.some((m) => m(pathInSource))
Some(patterns, pathInSource) ==
    \E i \in 1..Len(patterns) : Matches(patterns[i], pathInSource)

\* the test a derivation puts in front of this.canStoreValue(...)
Added(condition, pathInSource, value) ==
    CASE condition.kind = "inner" -> TRUE
      [] condition.kind = "whenPathMatches" ->
             Matches(condition.patterns[1], pathInSource)
      [] condition.kind = "whenPathMatchesEvery" ->
             Every(condition.patterns, pathInSource)
      [] condition.kind = "whenPathMatchesSome" ->
             Some(condition.patterns, pathInSource)
      [] condition.kind = "whenIsTypeOf" -> TypeOf(value) = condition.type
      [] condition.kind = "whenIsInstanceOf" -> InstanceOf(value, condition.type)

\* the added test alone, without this.canStoreValue(...)
AndThisAddedOnly(added, thisCanStoreValue) == added

\* added && this.canStoreValue(pathInSource, destinationUrl, value)
AndThis(added, thisCanStoreValue) == added /\ thisCanStoreValue

\* canStoreValue of the mock handler and of a fluent handler
RECURSIVE fluentCanStoreValue(_, _, _, _)
fluentCanStoreValue(handler, pathInSource, destinationUrl, value) ==
    IF handler = 0 THEN defaultCanStoreValue
    ELSE AndThis(Added(wrappers[handler].condition, pathInSource, value),
                 fluentCanStoreValue(wrappers[handler].innerHandler, pathInSource,
                                     destinationUrl, value))

\* the name getter of the mock handler and of a fluent handler
RECURSIVE fluentName(_)
fluentName(handler) ==
    IF handler = 0 THEN MockName
    ELSE fluentName(wrappers[handler].innerHandler)

\* the constructor: the name is the string given or else handler.name
FluentValueStorageHandler(handler, nameGiven, condition) ==
    [innerHandler |-> handler,
     name |-> IF nameGiven # NotGiven THEN nameGiven ELSE fluentName(handler),
     condition |-> condition]

\* a storeValue that hands the call on only when canStoreValue holds
ForwardedWhenApplicable(handler, call) ==
    IF fluentCanStoreValue(handler, call.pathInSource, call.destinationUrl,
                           call.value)
    THEN <<call>> ELSE <<>>

\* the calls a fluent handler's storeValue makes on its inner handler
Forwarded(handler, call) == <<call>>

\* the calls pushed on the mock handler's calls.storeValue by a storeValue
\* call on a handler
RECURSIVE Delivered(_, _)
Delivered(handler, call) ==
    IF handler = 0 THEN <<call>>
    ELSE IF Forwarded(handler, call) = <<>> THEN <<>>
    ELSE Delivered(wrappers[handler].innerHandler, Forwarded(handler, call)[1])

FluentNames == {"FOO"}
PatternA == <<"a", "/", "*", "/", "c">>
PatternY == <<"*", "/", "y", "/", "*">>
PatternAny == <<"a", "/", "*", "/", "*">>
FluentPatterns == {PatternA, PatternY}
FluentPatternLists == {<<>>, <<PatternA>>, <<PatternAny, PatternY>>}
FluentPaths ==
    { <<"a", "/", "b", "/", "c">>, <<"x", "/", "y", "/", "z">>,
      <<"a", "/", "y", "/", "z">>, <<"x", "/", "b", "/", "c">>, <<"d">> }
FluentTypes == {"string", "object"}
FluentClasses == {"URL", "Object"}
FluentValues == {NumberValue, TextValue, EmptyObject, InstanceValue("URL")}
FluentDestination == HttpUrl(<<"/", "d">>)

\* the handlers are built first and used afterwards
CanDerive == Len(wrappers) > 0 /\ Len(wrappers) < MaxWrappers /\ requests = <<>>

\* what a derivation leaves as it is
DerivationFrame ==
    UNCHANGED <<requests, mockVars, nestedVars, codecVars, resolverVars, storeVars>>

\* FluentValueStorageHandler.newHandler(mockHandler) or (mockHandler, name)
NewHandler ==
    /\ wrappers = <<>>
    /\ \E nameGiven \in FluentNames \cup {NotGiven} :
          wrappers' = <<FluentValueStorageHandler(0, nameGiven, InnerCondition)>>
    /\ DerivationFrame

\* handler.withName(name)
WithName ==
    /\ CanDerive
    /\ \E this \in {Len(wrappers)}, nameGiven \in FluentNames :
          wrappers' = Append(wrappers,
                             FluentValueStorageHandler(this, nameGiven, InnerCondition))
    /\ DerivationFrame

\* handler.whenPathMatches(pattern)
WhenPathMatches ==
    /\ CanDerive
    /\ \E this \in {Len(wrappers)}, pattern \in FluentPatterns :
          wrappers' = Append(wrappers,
              FluentValueStorageHandler(this, NotGiven,
                  Condition("whenPathMatches", <<pattern>>, "")))
    /\ DerivationFrame

\* handler.whenPathMatchesEvery(patterns)
WhenPathMatchesEvery ==
    /\ CanDerive
    /\ \E this \in {Len(wrappers)}, patterns \in FluentPatternLists :
          wrappers' = Append(wrappers,
              FluentValueStorageHandler(this, NotGiven,
                  Condition("whenPathMatchesEvery", patterns, "")))
    /\ DerivationFrame

\* handler.whenPathMatchesSome(patterns)
WhenPathMatchesSome ==
    /\ CanDerive
    /\ \E this \in {Len(wrappers)}, patterns \in FluentPatternLists :
          wrappers' = Append(wrappers,
              FluentValueStorageHandler(this, NotGiven,
                  Condition("whenPathMatchesSome", patterns, "")))
    /\ DerivationFrame

\* handler.whenIsTypeOf(type)
WhenIsTypeOf ==
    /\ CanDerive
    /\ \E this \in {Len(wrappers)}, type \in FluentTypes :
          wrappers' = Append(wrappers,
              FluentValueStorageHandler(this, NotGiven,
                  Condition("whenIsTypeOf", <<>>, type)))
    /\ DerivationFrame

\* handler.whenIsInstanceOf(classConstructor)
WhenIsInstanceOf ==
    /\ CanDerive
    /\ \E this \in {Len(wrappers)}, classConstructor \in FluentClasses :
          wrappers' = Append(wrappers,
              FluentValueStorageHandler(this, NotGiven,
                  Condition("whenIsInstanceOf", <<>>, classConstructor)))
    /\ DerivationFrame

\* mockHandler.defaultCanStoreValue = true or false
SetDefaultCanStoreValue ==
    /\ wrappers # <<>>
    /\ defaultCanStoreValue' = ~defaultCanStoreValue
    /\ UNCHANGED <<mockCalls, fluentVars, nestedVars, codecVars, resolverVars,
                   storeVars>>

\* handler.storeValue(pathInSource, destinationUrl, value, options) on the
\* handler built last; the request keeps what canStoreValue said of it
FluentStoreValue ==
    /\ requests = <<>>
    /\ wrappers # <<>>
    /\ \E handler \in {Len(wrappers)},
          pathInSource \in {<<"a", "/", "b", "/", "c">>, <<"d">>},
          value \in {NumberValue},
          options \in {Undefined, [EmptyOptions EXCEPT !.strict = "true"]} :
          \E call \in {StoreCall(pathInSource, FluentDestination, value, options)} :
             /\ requests' =
                    <<[handler |-> handler, call |-> call,
                       applicable |-> fluentCanStoreValue(handler, pathInSource,
                                                          FluentDestination, value)]>>
             /\ mockCalls' = mockCalls \o Delivered(handler, call)
    /\ UNCHANGED <<wrappers, defaultCanStoreValue, nestedVars, codecVars,
                   resolverVars, storeVars>>

FluentInit ==
    /\ wrappers = <<>>
    /\ requests = <<>>
    /\ defaultCanStoreValue = TRUE
    /\ mockCalls = <<>>
    /\ NestedIdle
    /\ CodecIdle
    /\ ResolverIdle
    /\ StoreIdle

FluentNext ==
    \/ NewHandler
    \/ WithName
    \/ WhenPathMatches
    \/ WhenPathMatchesEvery
    \/ WhenPathMatchesSome
    \/ WhenIsTypeOf
    \/ WhenIsInstanceOf
    \/ SetDefaultCanStoreValue
    \/ FluentStoreValue

SpecFluent == FluentInit /\ [][FluentNext]_vars

(***************************************************************************)
(* C9: decoding an encoded path element gives back the original string.    *)
(***************************************************************************)
C9_RoundTrip == codecPc = "decoded" => decoded = element

\* a round trip of a string that already contains the text of an escape
C9_Witness ==
    /\ codecPc = "decoded"
    /\ element = <<"%", "2", "F", "/">>
    /\ encoded = <<"%", "2", "5", "2", "F", "%", "2", "F">>
    /\ decoded = element

(***************************************************************************)
(* C10: an encoded path element contains no raw separator character.       *)
(***************************************************************************)
C10_NoSeparator == codecPc # "start" => ~Includes(encoded, "/")

\* an element with two separators has been encoded
C10_Witness ==
    /\ codecPc = "encoded"
    /\ element = <<"/", "%", "/">>
    /\ encoded = <<"%", "2", "F", "%", "2", "5", "%", "2", "F">>

(***************************************************************************)
(* C2: containment of getContentsUrl.                                      *)
(***************************************************************************)
\* the path of a directory with a trailing separator
WithSeparator(path) == IF EndsWith(path, SLASH) THEN path ELSE path \o SLASH

\* the non-empty segments of a normalized path
Segments(path) == NormalizeSegments(Split(path), <<>>, FALSE)

IsPrefix(p, q) == Len(p) <= Len(q) /\ SubSeq(q, 1, Len(p)) = p

\* the name joined onto the canonical path with one separator, normalized
NormalizedJoin(canonicalPath, name) == normalize(canonicalPath \o SLASH \o name)

\* the name resolved as a URL reference against the canonical URL with a
\* trailing separator
ResolveReference(canonicalUrl, name) ==
    NewUrl(name, [canonicalUrl EXCEPT !.path = WithSeparator(canonicalUrl.path)])

\* C2 as stated: for every name, if the normalized join of the name with the
\* canonical location L stays within L's subtree, getContentsUrl succeeds
\* and its result path starts with L + separator; if it escapes,
\* getContentsUrl throws a DirectoryEscapeError that records the name and the
\* enclosing canonical path.
C2_AsStated ==
    resolverPc = "returned" =>
        LET L == dirRef.canonicalUrl.path
            joined == NormalizedJoin(L, dirName)
        IN /\ StartsWith(joined, WithSeparator(L)) =>
                  /\ dirResult.outcome = "ok"
                  /\ StartsWith(dirResult.url.path, WithSeparator(L))
           /\ ~StartsWith(joined, WithSeparator(L)) =>
                  /\ dirResult.outcome = "DirectoryEscapeError"
                  /\ dirResult.error.candidatePath = dirName
                  /\ dirResult.error.enclosingPath = L

\* C2 as amended: for every name that parses as a URL reference, let R be the
\* normalized path of the name resolved as a URL reference against L +
\* separator. If R starts with L's path + separator, getContentsUrl succeeds,
\* its result path is R and lies in L's subtree; otherwise it throws a
\* DirectoryEscapeError recording the name, R and L's canonical path. A name
\* that does not parse makes the URL constructor throw its TypeError.
C2_Containment ==
    resolverPc = "returned" =>
        LET L == dirRef.canonicalUrl.path
            parsed == ResolveReference(dirRef.canonicalUrl, dirName)
            R == normalize(parsed.url.path)
        IN /\ ~parsed.ok <=> dirResult.outcome = "TypeError"
           /\ parsed.ok /\ StartsWith(R, WithSeparator(L)) =>
                  /\ dirResult.outcome = "ok"
                  /\ dirResult.url.path = R
                  /\ StartsWith(dirResult.url.path, WithSeparator(L))
                  /\ IsPrefix(Segments(L), Segments(dirResult.url.path))
           /\ parsed.ok /\ ~StartsWith(R, WithSeparator(L)) =>
                  /\ dirResult.outcome = "DirectoryEscapeError"
                  /\ dirResult.error.candidatePath = dirName
                  /\ dirResult.error.escapedPath = R
                  /\ dirResult.error.enclosingPath = L
                  /\ ~IsPrefix(Segments(L), Segments(R)) \/ R = L

\* a traversal out of /d//a/ that lands in a sibling whose name has the
\* directory's name as a prefix has been rejected
C2_Witness ==
    /\ resolverPc = "returned"
    /\ dirInput = FileUrl(<<"/", "d", "/", "/", "a", "/">>)
    /\ dirName = <<".", ".", "/", "a", "a">>
    /\ dirResult.outcome = "DirectoryEscapeError"
    /\ dirResult.error = [candidatePath |-> dirName,
                          escapedPath |-> <<"/", "d", "/", "a", "a">>,
                          enclosingPath |-> <<"/", "d", "/", "a">>]

(***************************************************************************)
(* Notions of the claims about storeValue                                  *)
(***************************************************************************)
\* the canonical path of a location: normalized, without trailing separator
CanonicalPath(url) == SLASH \o JoinSegments(Segments(url.path))

\* the canonical location of a URL
CanonicalLocation(url) == [url EXCEPT !.path = CanonicalPath(url)]

\* a path is the base path or lies below it
Within(path, base) == path = base \/ StartsWith(path, WithSeparator(base))

\* the value of a key after the call-site options are laid over the defaults
Effective(key) ==
    IF rootOptions[key] # "unset" THEN rootOptions[key] ELSE defaultOptions[key]

\* the calls of one kind made for the property at a path-in-source
CallsFor(op, path) ==
    SelectSeq(calls, LAMBDA c : c.op = op /\ c.pathInSource = path)

\* the properties for which a candidate handler has been consulted
ConsultedPaths ==
    {calls[i].pathInSource : i \in {j \in 1..Len(calls) : calls[j].op = "canStoreValue"}}

\* the property whose candidate scan is under way
ScanInProgress(path) ==
    /\ Running
    /\ Top.pc = "scan"
    /\ Top.nestedPathInSource = path

(***************************************************************************)
(* C1: every location handed to createDirectory or to a candidate          *)
(* handler's canStoreValue/storeValue, at any depth, is the canonical path *)
(* of the destination or below it; a property whose derived location       *)
(* falls outside its parent directory rejects storeValue with a            *)
(* DirectoryEscapeError before any collaborator is called for it.          *)
(***************************************************************************)
C1_Containment ==
    /\ \A i \in 1..Len(calls) :
           Within(calls[i].url.path, CanonicalPath(rootDestination))
    /\ \A k \in 1..Len(stack) :
           stack[k].pc \in {"scan", "awaitStore", "awaitSelf"} =>
               Within(stack[k].nestedDestinationUrl.path,
                      CanonicalPath(stack[k].destinationUrl))
    /\ outcome.error.thrownBy = "getContentsUrl" =>
           /\ outcome.error.name = "DirectoryEscapeError"
           /\ ~Within(outcome.error.escape.escapedPath,
                      outcome.error.escape.enclosingPath)
           /\ \A i \in 1..Len(calls) :
                  calls[i].pathInSource # outcome.error.pathInSource

\* the key ".." of a nested object has been rejected after the directories
\* of the root and of the nested object were created
C1_Witness ==
    /\ rootDestination = FileUrl(<<"/", "d">>)
    /\ rootValue = ObjectValue(<<Property(KeyA,
                       ObjectValue(<<Property(KeyDotDot, NumberValue)>>))>>)
    /\ outcome.state = "rejected"
    /\ outcome.error.name = "DirectoryEscapeError"
    /\ outcome.error.escape.escapedPath = <<"/", "d", "/">>
    /\ outcome.error.escape.enclosingPath = <<"/", "d", "/", "a">>
    /\ Len(calls) >= 2
    /\ calls[Len(calls)].op = "createDirectory"
    /\ calls[Len(calls)].url.path = <<"/", "d", "/", "a">>

(***************************************************************************)
(* C3: for every property the candidates' canStoreValue is asked in list   *)
(* order up to and including the first that answers true; storeValue is    *)
(* then called on that handler and on no other, and no later candidate is  *)
(* asked; after an answer of false the next candidate is asked.            *)
(***************************************************************************)
C3_HandlerOrder ==
    /\ \A path \in ConsultedPaths :
           LET asked == CallsFor("canStoreValue", path)
               stored == CallsFor("storeValue", path)
           IN /\ Len(asked) <= Len(handlers)
              /\ \A j \in 1..Len(asked) : asked[j].handler = handlers[j]
              /\ \A j \in 1..(Len(asked) - 1) : asked[j].result = FALSE
              /\ Len(stored) <= 1
              /\ Len(stored) = 1 <=> asked[Len(asked)].result = TRUE
              /\ Len(stored) = 1 => stored[1].handler = asked[Len(asked)].handler
              /\ ~ScanInProgress(path) =>
                     \/ asked[Len(asked)].result = TRUE
                     \/ Len(asked) = Len(handlers)
    /\ \A i \in 1..Len(calls) :
           calls[i].op = "storeValue" =>
               /\ i > 1
               /\ calls[i - 1].op = "canStoreValue"
               /\ calls[i - 1].result = TRUE
               /\ calls[i - 1].handler = calls[i].handler
               /\ calls[i - 1].pathInSource = calls[i].pathInSource

\* the first handler answered false, the second true, and the second stored
C3_Witness ==
    /\ Len(handlers) = 2
    /\ Len(calls) = 4
    /\ calls[2].op = "canStoreValue" /\ calls[2].handler = "h1" /\ ~calls[2].result
    /\ calls[3].op = "canStoreValue" /\ calls[3].handler = "h2" /\ calls[3].result
    /\ calls[4].op = "storeValue" /\ calls[4].handler = "h2"
    /\ outcome.state = "resolved"

(***************************************************************************)
(* C4: when no candidate matches a property that is not a plain object,    *)
(* storeValue resolves if the merged strict option is unset or false and   *)
(* rejects with the no-handler error naming the property's path if it is   *)
(* true; no createDirectory and no storeValue call is made for it (stated   *)
(* for the properties of a plain-object root).                             *)
(***************************************************************************)
C4_StrictPolicy ==
    isPlainObject(rootValue) =>
    /\ \A i \in 1..Len(calls) :
           calls[i].op = "createDirectory" /\ calls[i].depth > 1 =>
               isPlainObject(calls[i].value)
    /\ \A k \in 1..Len(stack) : \A j \in 1..Len(stack[k].entries) :
           /\ j < stack[k].index
           /\ ~isPlainObject(stack[k].entries[j].value)
           /\ CallsFor("storeValue",
                       NestedPath(stack[k].pathInSource, stack[k].entries[j].key)) = <<>>
           => Effective("strict") # "true"
    /\ outcome.error.thrownBy = "strict" =>
           /\ outcome.error.name = "Error"
           /\ Effective("strict") = "true"
           /\ \A i \in 1..Len(calls) :
                  calls[i].op \in {"createDirectory", "storeValue"} =>
                      calls[i].pathInSource # outcome.error.pathInSource

(***************************************************************************)
(* C5: a plain-object property that no candidate accepts is stored by the  *)
(* handler itself, whatever strict is: a directory is created at the       *)
(* property's location and the nested invocation works with the same       *)
(* merged options as its caller (cancellation apart).                      *)
(***************************************************************************)
C5_Step ==
    /\ NoCandidateStored /\ isPlainObject(Top.entries[Top.index].value) =>
           /\ outcome' = outcome
           /\ Len(stack') = Len(stack) + 1
           /\ stack'[Len(stack)].pc = "awaitSelf"
           /\ stack'[Len(stack')].pc = "enter"
           /\ stack'[Len(stack')].pathInSource = Top.nestedPathInSource
           /\ stack'[Len(stack')].destinationUrl = Top.nestedDestinationUrl
           /\ stack'[Len(stack')].value = Top.entries[Top.index].value
           /\ calls' = calls
    /\ /\ Running
       /\ Len(stack) > 1
       /\ Top.pc = "enter"
       /\ isPlainObject(Top.value)
       /\ Effective("signal") # "aborted"
       => /\ outcome' = outcome
          /\ Len(stack') = Len(stack)
          /\ stack'[Len(stack')].mergedOptions = stack[Len(stack) - 1].mergedOptions
          /\ Len(calls') = Len(calls) + 1
          /\ calls'[Len(calls')].op = "createDirectory"
          /\ calls'[Len(calls')].recursive
          /\ calls'[Len(calls')].url.path = CanonicalPath(Top.destinationUrl)
          /\ calls'[Len(calls')].url.host = rootDestination.host

C5_NestedObject == [][C5_Step]_vars

\* under strict = true a nested object that the only candidate refused has
\* got its directory, with the options of the call site merged in
C5_Witness ==
    /\ Len(stack) = 2
    /\ Len(handlers) = 1
    /\ defaultOptions = [EmptyOptions EXCEPT !.mode = "0o666", !.signal = "S"]
    /\ rootOptions = [EmptyOptions EXCEPT !.strict = "true"]
    /\ isPlainObject(stack[2].value)
    /\ stack[2].pc = "loop"
    /\ stack[2].mergedOptions =
           [EmptyOptions EXCEPT !.mode = "0o666", !.signal = "S", !.strict = "true"]
    /\ calls[Len(calls)].op = "createDirectory"
    /\ calls[Len(calls)].url = FileUrl(<<"/", "d", "/", "a">>)
    /\ calls[Len(calls) - 1].op = "canStoreValue"
    /\ ~calls[Len(calls) - 1].result

(***************************************************************************)
(* C6: canStoreValue answers true if and only if the value is a plain      *)
(* object: false for arrays, null and every primitive.                     *)
(***************************************************************************)
C6_CanStoreOnlyObjects ==
    answered # "none" => (answered = "true" <=> isPlainObject(rootValue))

(***************************************************************************)
(* C7: storeValue of a value that is not a plain object rejects at once    *)
(* with a TypeError naming pathInSource, and no createDirectory and no     *)
(* candidate call has been made (a call that is cancelled apart).          *)
(***************************************************************************)
C7_TypeMismatch ==
    /\ ~isPlainObject(rootValue)
    /\ rootOptions.signal # "aborted"
    /\ answered = "none"
    => /\ calls = <<>>
       /\ outcome.state # "resolved"
       /\ outcome.state = "rejected" =>
              /\ outcome.error.name = "TypeError"
              /\ outcome.error.thrownBy = "storeValue"
              /\ outcome.error.pathInSource = rootPath
       /\ outcome.state = "pending" => Len(stack) = 1 /\ Top.pc = "enter"

(***************************************************************************)
(* C8: the options a candidate's storeValue receives are the key-by-key    *)
(* merge of the default options with the call-site options: the call-site  *)
(* value for every key the call site has, the default value otherwise,     *)
(* and the defaults unchanged when there are no call-site options.         *)
(***************************************************************************)
C8_OptionLayering ==
    \A i \in 1..Len(calls) :
        calls[i].op = "storeValue" =>
            /\ \A key \in OptionKeys : calls[i].options[key] = Effective(key)
            /\ calls[i].options.defined <=> defaultOptions.defined \/ rootOptions.defined
            /\ ~rootOptions.defined => calls[i].options = defaultOptions

\* defaults {mode: 0o666, signal: S} and call-site {mode: 0o777, encoder}:
\* the candidate received the call-site mode and the default signal
C8_Witness ==
    /\ defaultOptions = [EmptyOptions EXCEPT !.mode = "0o666", !.signal = "S"]
    /\ rootOptions = [EmptyOptions EXCEPT !.mode = "0o777",
                                          !.propertyNameEncoder = "toLowerCase"]
    /\ Len(calls) > 0
    /\ calls[Len(calls)].op = "storeValue"
    /\ calls[Len(calls)].depth = 2
    /\ calls[Len(calls)].options =
           [EmptyOptions EXCEPT !.mode = "0o777", !.signal = "S",
                                !.propertyNameEncoder = "toLowerCase"]

(***************************************************************************)
(* C12: if the signal of the merged options (the defaults overlaid by the  *)
(* call-site options) is already aborted when storeValue is called,        *)
(* storeValue rejects with the AbortError before any createDirectory call   *)
(* and before any call of a candidate handler (stated for a plain object).  *)
(***************************************************************************)
C12_CancelledBeforeCalls ==
    (/\ construction # "none"
     /\ answered = "none"
     /\ isPlainObject(rootValue)
     /\ Effective("signal") = "aborted") =>
        /\ calls = <<>>
        /\ outcome.state # "resolved"
        /\ outcome.state = "rejected" => outcome.error.name = "AbortError"

(***************************************************************************)
(* Notions of the claims about failures                                    *)
(***************************************************************************)
\* an error has been thrown somewhere in the run
HasRaised == raised.error # NoFailure

\* the call a collaborator rejected: the last one made before the error
FailedCall == calls[raised.after]

\* a collaborator's promise of the given operation has rejected
CollaboratorFailed(op) ==
    /\ raised.error \in CollaboratorErrors
    /\ raised.after \in 1..Len(calls)
    /\ FailedCall.op = op

(***************************************************************************)
(* C13: when a candidate handler's storeValue, or a nested storeValue of   *)
(* this handler, fails for a property, the top-level storeValue rejects     *)
(* with that same error; the failed call is made once, and no call is made  *)
(* after it for any later property at that level or at an enclosing level.  *)
(***************************************************************************)
C13_FailurePropagates ==
    HasRaised =>
        /\ outcome = Rejected(raised.error)
        /\ stack = <<>>
        /\ Len(calls) = raised.after
        /\ CollaboratorFailed("storeValue") =>
               /\ outcome.error \in CollaboratorErrors
               /\ Len(SelectSeq(calls, LAMBDA c :
                          /\ c.op = "storeValue"
                          /\ c.handler = FailedCall.handler
                          /\ c.pathInSource = FailedCall.pathInSource)) = 1

\* the storeValue of a candidate has failed for a property of a nested
\* object, while a later property of the root was still to be stored
C13_Witness ==
    /\ rootPath = <<>>
    /\ rootValue = ObjectValue(<<Property(KeyA, ObjectValue(<<Property(KeyA, NullValue)>>)),
                                 Property(KeyDotDot, NullValue)>>)
    /\ outcome = Rejected(Failure("NotFound", "collaborator", <<>>, NoError))
    /\ CollaboratorFailed("storeValue")
    /\ FailedCall.depth = 2
    /\ FailedCall.pathInSource = <<"/", "a", "/", "a">>
    /\ Len(calls) = raised.after

(***************************************************************************)
(* C14: when the createDirectory call for the destination fails,            *)
(* storeValue rejects with that same error, createDirectory is not called   *)
(* again for it, and no candidate handler is asked canStoreValue or         *)
(* storeValue for any property of that object.                              *)
(***************************************************************************)
C14_CreationFailure ==
    CollaboratorFailed("createDirectory") =>
        /\ outcome = Rejected(raised.error)
        /\ Len(calls) = raised.after
        /\ Len(CallsFor("createDirectory", FailedCall.pathInSource)) = 1
        /\ \A i \in 1..Len(calls) :
               calls[i].op \in {"canStoreValue", "storeValue"} =>
                   ~StartsWith(calls[i].pathInSource, FailedCall.pathInSource \o SLASH)

\* the directory of the root object, which has a property, could not be
\* created
C14_Witness ==
    /\ rootValue = ObjectValue(<<Property(KeyA, TextValue)>>)
    /\ Len(handlers) = 1
    /\ CollaboratorFailed("createDirectory")
    /\ outcome = Rejected(Failure("PermissionDenied", "collaborator", <<>>, NoError))
    /\ Len(calls) = 1
    /\ calls[1].op = "createDirectory"
    /\ calls[1].url = CanonicalLocation(rootDestination)
    /\ settled = 1

(***************************************************************************)
(* Notions of the claims about the property loop                           *)
(***************************************************************************)
\* the positions in the call log of the calls of the given operations
Positions(ops) == {i \in 1..Len(calls) : calls[i].op \in ops}

\* the object nodes that storeValue was invoked on: each one made one
\* createDirectory call, logged with its path-in-source and its value
StoredNodes == {calls[i] : i \in Positions({"createDirectory"})}

\* the path-in-source of a property of a node, as the specification gives it
PropertyPath(node, key) == node.pathInSource \o SLASH \o encodePathElement(key)

\* a call was made for the property at the path or for something below it
BelongsTo(call, path) ==
    call.pathInSource = path \/ StartsWith(call.pathInSource, path \o SLASH)

\* the number of calls of an operation, by a handler, for a path
CountCalls(ops, handlerSet, path) ==
    Cardinality({i \in Positions(ops) :
                     calls[i].handler \in handlerSet /\ calls[i].pathInSource = path})

AllHandlers == {handlers[i] : i \in 1..Len(handlers)}

(***************************************************************************)
(* C16: in a storeValue call that resolves, every own property of every     *)
(* stored object is attempted exactly once, in the object's iteration       *)
(* order: each candidate is asked at most once and the first one is asked,  *)
(* at most one storeValue call or nested storeValue stores it, and the      *)
(* calls for a property precede those for the properties after it.          *)
(***************************************************************************)
C16_EachPropertyOnce ==
    outcome.state = "resolved" =>
        \A node \in StoredNodes :
            LET E == node.value.entries
                P(i) == PropertyPath(node, E[i].key)
            IN /\ \A i \in 1..Len(E) :
                      /\ \A h \in AllHandlers : CountCalls({"canStoreValue"}, {h}, P(i)) <= 1
                      /\ Len(handlers) > 0 =>
                             CountCalls({"canStoreValue"}, {handlers[1]}, P(i)) = 1
                      /\ CountCalls({"storeValue", "createDirectory"},
                                    AllHandlers \cup {"creator"}, P(i)) <= 1
                      /\ CountCalls({"storeValue"}, AllHandlers, P(i)) = 0 /\ isObject(E[i].value)
                             => CountCalls({"createDirectory"}, {"creator"}, P(i)) = 1
                      /\ \A x \in Positions({"canStoreValue", "storeValue"}) :
                             calls[x].pathInSource = P(i) => calls[x].value = E[i].value
               /\ \A i, j \in 1..Len(E) : \A x, y \in 1..Len(calls) :
                      (i < j /\ BelongsTo(calls[x], P(i)) /\ BelongsTo(calls[y], P(j)))
                          => x < y

\* an object with two properties has been stored: the first one by a nested
\* storeValue after both candidates refused it, the second one by the second
\* candidate
C16_Witness ==
    /\ outcome.state = "resolved"
    /\ rootPath = <<>>
    /\ rootValue = ObjectValue(<<Property(KeyA, EmptyObject), Property(KeyB, ArrayValue)>>)
    /\ Len(handlers) = 2
    /\ Len(calls) = 7
    /\ calls[4].op = "createDirectory" /\ calls[4].pathInSource = <<"/", "a">>
    /\ calls[7].op = "storeValue" /\ calls[7].pathInSource = <<"/", "b">>
    /\ calls[7].handler = "h2"

(***************************************************************************)
(* C17: sibling properties are handled one after the other: a call is made  *)
(* only when every promise of a collaborator issued before it has settled,  *)
(* so at most one createDirectory or storeValue call is in flight, and      *)
(* after the first error no further call is made.                           *)
(***************************************************************************)
\* the collaborators' promises that have been issued and have not settled
InFlight == Cardinality(Positions({"createDirectory", "storeValue"})) - settled

C17_Step ==
    /\ calls' # calls => (InFlight = 0 /\ ~HasRaised)
    /\ InFlight' \in {0, 1}
    /\ HasRaised => calls' = calls

C17_Sequential == [][C17_Step]_vars

\* the storeValue for the first property has settled and the first
\* candidate has been asked about the second property
C17_Witness ==
    /\ rootPath = <<>>
    /\ rootValue = ObjectValue(<<Property(KeyA, NullValue), Property(KeyB, EmptyObject)>>)
    /\ Len(calls) = 4
    /\ calls[3].op = "storeValue" /\ calls[3].pathInSource = <<"/", "a">>
    /\ calls[4].op = "canStoreValue" /\ calls[4].pathInSource = <<"/", "b">>
    /\ settled = 2
    /\ InFlight = 0

(***************************************************************************)
(* C18: with the default property name encoder, two distinct property keys  *)
(* of the same object are never given the same nested destination URL,      *)
(* unless storeValue rejects with a DirectoryEscapeError.                   *)
(***************************************************************************)
C18_NoCollision ==
    (/\ Effective("propertyNameEncoder") = "unset"
     /\ outcome.error.name # "DirectoryEscapeError") =>
        \A node \in StoredNodes :
            LET E == node.value.entries
            IN \A i, j \in 1..Len(E) :
                   \A x, y \in Positions({"canStoreValue", "storeValue"}) :
                       (/\ E[i].key # E[j].key
                        /\ calls[x].pathInSource = PropertyPath(node, E[i].key)
                        /\ calls[y].pathInSource = PropertyPath(node, E[j].key))
                           => calls[x].url # calls[y].url

(***************************************************************************)
(* C19: for each property key k of an object stored at path-in-source p     *)
(* and destination D, canStoreValue and storeValue of the candidates get    *)
(* the path p + "/" + encodePathElement(k), the location of k inside D and  *)
(* the property's value as it is; storing {a: "b"} at path "" with one      *)
(* accepting candidate makes exactly one createDirectory call for D and one *)
(* storeValue call with path "/a", destination D/a and value "b" (the       *)
(* example is read with the default property name encoder).                 *)
(***************************************************************************)
\* the location of a name inside a directory: the name, escaped for a URL,
\* resolved against the canonical URL of the directory and normalized
ChildLocation(destinationUrl, name) ==
    LET canonicalUrl == DirectoryReference(destinationUrl).canonicalUrl
        parsed == ResolveReference(canonicalUrl, encodeURIComponent(name))
    IN [parsed.url EXCEPT !.path = normalize(parsed.url.path)]

\* the positions in the call log of the calls that the innermost invocation
\* has just made for its current property
JustMade ==
    IF ~Running THEN {}
    ELSE IF Top.pc = "awaitStore" THEN {Len(calls) - 1, Len(calls)}
    ELSE IF Top.pc = "scan" /\ Top.candidate > 1 THEN {Len(calls)}
    ELSE {}

TextScenario ==
    /\ rootPath = <<>>
    /\ rootValue = ObjectValue(<<Property(KeyA, TextValue)>>)
    /\ Len(handlers) = 1
    /\ Effective("propertyNameEncoder") = "unset"
    /\ outcome.state = "resolved"
    /\ \E i \in 1..Len(calls) :
           /\ calls[i].op = "canStoreValue"
           /\ calls[i].value = TextValue
           /\ calls[i].depth = 1
           /\ calls[i].result

TextScenarioCalls ==
    /\ Len(calls) = 3
    /\ calls[1].op = "createDirectory"
    /\ calls[1].url = DirectoryReference(rootDestination).canonicalUrl
    /\ calls[2].op = "canStoreValue"
    /\ calls[3].op = "storeValue"
    /\ calls[3].handler = handlers[1]
    /\ calls[3].pathInSource = <<"/", "a">>
    /\ calls[3].url.path = WithSeparator(CanonicalPath(rootDestination)) \o KeyA
    /\ calls[3].value = TextValue

C19_Arguments ==
    /\ \A n \in JustMade :
           isPlainObject(Top.value) =>
               LET property == Top.value.entries[Top.index]
                   encoder == mergeOptions(defaultOptions, Top.options).propertyNameEncoder
               IN /\ calls[n].op \in {"canStoreValue", "storeValue"}
                  /\ calls[n].pathInSource =
                         Top.pathInSource \o SLASH \o encodePathElement(property.key)
                  /\ calls[n].url =
                         ChildLocation(Top.destinationUrl,
                                       ApplyEncoder(encoder, property.key))
                  /\ calls[n].value = property.value
    /\ TextScenario => TextScenarioCalls

\* a candidate has stored the property "a/b" of an object stored at "/r"
C19_Witness ==
    /\ rootPath = <<"/", "r">>
    /\ rootDestination = FileUrl(<<"/", "d", "/", "/", "a", "/">>)
    /\ rootValue = ObjectValue(<<Property(KeySlash, TextValue)>>)
    /\ Effective("propertyNameEncoder") = "unset"
    /\ outcome.state = "resolved"
    /\ Len(calls) = 3
    /\ calls[3].op = "storeValue"
    /\ calls[3].pathInSource = <<"/", "r", "/", "a", "%", "2", "F", "b">>
    /\ calls[3].url.path =
           <<"/", "d", "/", "a", "/", "a", "%", "2", "5", "2", "F", "b">>
    /\ calls[3].value = TextValue

(***************************************************************************)
(* C20: a tree of nested plain objects stored with an empty handler list    *)
(* makes exactly one createDirectory call per object node, the root         *)
(* included, each for the node's canonical location with recursive = true,  *)
(* a parent's call having settled before a child's call is made, and no     *)
(* storeValue call of a handler; {a: {}} stored at D makes two calls, for D *)
(* and then for D/a.                                                        *)
(***************************************************************************)
RECURSIVE IsObjectTree(_)
IsObjectTree(value) ==
    /\ isPlainObject(value)
    /\ \A i \in 1..Len(value.entries) : IsObjectTree(value.entries[i].value)

\* the createDirectory calls expected for a tree, parents before children
\* and siblings in iteration order, as path-in-source and location
RECURSIVE ExpectedCreations(_, _, _, _)
RECURSIVE ExpectedBelow(_, _, _, _, _)
ExpectedCreations(value, path, url, encoder) ==
    <<[pathInSource |-> path, url |-> CanonicalLocation(url)]>>
        \o ExpectedBelow(value, path, url, encoder, 1)

ExpectedBelow(value, path, url, encoder, i) ==
    IF i > Len(value.entries) THEN <<>>
    ELSE LET property == value.entries[i]
         IN ExpectedCreations(property.value,
                              path \o SLASH \o encodePathElement(property.key),
                              ChildLocation(url, ApplyEncoder(encoder, property.key)),
                              encoder)
                \o ExpectedBelow(value, path, url, encoder, i + 1)

C20_OneDirectoryPerNode ==
    (/\ construction # "none"
     /\ answered = "none"
     /\ handlers = <<>>
     /\ Effective("signal") # "aborted"
     /\ IsObjectTree(rootValue)
     /\ ~HasRaised) =>
        LET expected == ExpectedCreations(rootValue, rootPath, rootDestination,
                                          Effective("propertyNameEncoder"))
        IN /\ Len(calls) <= Len(expected)
           /\ \A i \in 1..Len(calls) :
                  /\ calls[i].op = "createDirectory"
                  /\ calls[i].recursive
                  /\ calls[i].pathInSource = expected[i].pathInSource
                  /\ calls[i].url = expected[i].url
           /\ InFlight \in {0, 1}
           /\ (Running /\ Top.pc = "enter") => InFlight = 0
           /\ outcome.state = "resolved" => Len(calls) = Len(expected)

\* {a: {b: {}}, b: {}} has been stored below /d//a/ without handlers:
\* four directories, /d/a, /d/a/a, /d/a/a/b and /d/a/b
C20_Witness ==
    /\ handlers = <<>>
    /\ rootPath = <<>>
    /\ rootDestination = FileUrl(<<"/", "d", "/", "/", "a", "/">>)
    /\ rootValue \in ObjectTrees
    /\ outcome.state = "resolved"
    /\ Len(calls) = 4
    /\ calls[1].url.path = <<"/", "d", "/", "a">>
    /\ calls[2].url.path = <<"/", "d", "/", "a", "/", "a">>
    /\ calls[3].url.path = <<"/", "d", "/", "a", "/", "a", "/", "b">>
    /\ calls[4].url.path = <<"/", "d", "/", "a", "/", "b">>
    /\ \A i \in 1..4 : calls[i].op = "createDirectory" /\ calls[i].recursive

(***************************************************************************)
(* C11: the candidate handler list is copied when the handler is built:     *)
(* adding, removing or reordering entries of the caller's own list          *)
(* afterwards never changes which handlers a later storeValue call          *)
(* consults, nor their order.                                               *)
(***************************************************************************)
\* for every property the candidates asked are those of the list, in its
\* order, and all of them when none accepted
ConsultsList(list) ==
    \A path \in ConsultedPaths :
        LET asked == CallsFor("canStoreValue", path)
        IN /\ Len(asked) <= Len(list)
           /\ \A j \in 1..Len(asked) : j <= Len(list) => asked[j].handler = list[j]
           /\ (~ScanInProgress(path) /\ ~asked[Len(asked)].result)
                  => Len(asked) = Len(list)

\* C11 as stated: however the handler was built
C11_AsStated ==
    construction # "none" => ConsultsList(constructedWith)

\* C11 as amended: the list is copied by newDirectoryObjectStorageHandler,
\* and so by storeObjectToDirectory; a handler built by either consults the
\* handlers the caller's list held when it was built, in that order,
\* whatever the caller does to its list afterwards. (The class constructor
\* keeps the caller's array itself.)
C11_ListCopied ==
    construction \in {"newDirectoryObjectStorageHandler", "storeObjectToDirectory"} =>
        /\ handlers = constructedWith
        /\ ConsultsList(constructedWith)

\* the factory was given <<h1, h2>>, the caller then reordered its list, and
\* storeValue has asked h1 and then h2
C11_Witness ==
    /\ construction = "newDirectoryObjectStorageHandler"
    /\ constructedWith = <<"h1", "h2">>
    /\ callerHandlers = <<"h2", "h1">>
    /\ outcome.state = "resolved"
    /\ Len(calls) >= 4
    /\ calls[2].op = "canStoreValue" /\ calls[2].handler = "h1" /\ ~calls[2].result
    /\ calls[3].op = "canStoreValue" /\ calls[3].handler = "h2" /\ calls[3].result
    /\ calls[4].op = "storeValue" /\ calls[4].handler = "h2"

(***************************************************************************)
(* C15: storeObjectToDirectory(destination, root, handlerList, options)     *)
(* makes the same calls and settles as a DirectoryValueStorageHandler built *)
(* over a copy of handlerList with no default options on which              *)
(* storeValue("", destination, root, options) is called: it runs that       *)
(* handler from that call, so its list is the copy, its defaults are        *)
(* undefined, its outermost invocation has those arguments, its first call  *)
(* creates the destination's canonical directory, and every candidate gets  *)
(* the call-site options.                                                   *)
(***************************************************************************)
C15_Facade ==
    construction = "storeObjectToDirectory" =>
        LET direct == NewDirectoryValueStorageHandler(ArrayFrom(constructedWith), Undefined)
            start == NewInvocation(<<>>, rootDestination, rootValue, rootOptions)
        IN /\ handlers = direct.handlers
           /\ defaultOptions = direct.defaultOptions
           /\ rootPath = <<>>
           /\ Len(stack) >= 1 =>
                  /\ stack[1].pathInSource = start.pathInSource
                  /\ stack[1].destinationUrl = start.destinationUrl
                  /\ stack[1].value = start.value
                  /\ stack[1].options = start.options
           /\ (Len(stack) = 1 /\ stack[1].pc = "enter") => stack[1] = start
           /\ Len(calls) >= 1 =>
                  /\ calls[1].op = "createDirectory"
                  /\ calls[1].pathInSource = <<>>
                  /\ calls[1].url = CanonicalLocation(rootDestination)
           /\ \A i \in Positions({"storeValue"}) :
                  calls[i].options = mergeOptions(Undefined, rootOptions)
           /\ ConsultsList(constructedWith)

\* storeObjectToDirectory was called with options, the caller then emptied
\* its one-element list, and the handler of the list has stored the property
C15_Witness ==
    /\ construction = "storeObjectToDirectory"
    /\ constructedWith = <<"h1">>
    /\ callerHandlers = <<>>
    /\ rootValue = ObjectValue(<<Property(KeyA, TextValue)>>)
    /\ rootOptions = [EmptyOptions EXCEPT !.mode = "0o777",
                                          !.propertyNameEncoder = "toLowerCase"]
    /\ outcome.state = "resolved"
    /\ Len(calls) = 3
    /\ calls[3].op = "storeValue"
    /\ calls[3].handler = "h1"
    /\ calls[3].pathInSource = <<"/", "a">>
    /\ calls[3].options = rootOptions

(***************************************************************************)
(* C21: when a directory handler with default options I is a candidate of  *)
(* a directory handler with default options O and the outer storeValue is  *)
(* called with options C, the handler under the inner handler receives,    *)
(* for each key, C's value if C has the key, else O's value if O has it,   *)
(* else I's value.                                                         *)
(***************************************************************************)
Tiered(key) ==
    IF callOptions[key] # "unset" THEN callOptions[key]
    ELSE IF outerOptions[key] # "unset" THEN outerOptions[key]
    ELSE innerOptions[key]

C21_ThreeTiers ==
    \A i \in 1..Len(mockCalls) :
        mockCalls[i].op = "storeValue" =>
            \A key \in OptionKeys : mockCalls[i].options[key] = Tiered(key)

\* inner defaults {mode: 0o666, signal: S}, outer defaults {strict: false,
\* encoder}, call {mode: 0o777, encoder}: the mock handler got each tier's part
C21_Witness ==
    /\ innerOptions = [EmptyOptions EXCEPT !.mode = "0o666", !.signal = "S"]
    /\ outerOptions = [EmptyOptions EXCEPT !.strict = "false",
                                           !.propertyNameEncoder = "dotdot"]
    /\ callOptions = [EmptyOptions EXCEPT !.mode = "0o777",
                                          !.propertyNameEncoder = "toLowerCase"]
    /\ Len(mockCalls) > 0
    /\ mockCalls[Len(mockCalls)].op = "storeValue"
    /\ mockCalls[Len(mockCalls)].options =
           [EmptyOptions EXCEPT !.mode = "0o777", !.strict = "false", !.signal = "S",
                                !.propertyNameEncoder = "toLowerCase"]

(***************************************************************************)
(* C22: storeValue on a fluent handler hands the call to the inner         *)
(* handler's storeValue exactly once, with the same pathInSource,          *)
(* destination, value and options, whatever the fluent handler's           *)
(* canStoreValue says of these arguments.                                  *)
(***************************************************************************)
C22_DelegatesOnce ==
    /\ Len(mockCalls) = Len(requests)
    /\ \A i \in 1..Len(requests) : mockCalls[i] = requests[i].call

\* a handler derived with a condition was asked to store what its
\* canStoreValue refuses, and the mock handler received the call
C22_Witness ==
    /\ requests # <<>>
    /\ ~requests[1].applicable
    /\ wrappers[requests[1].handler].condition.kind = "whenPathMatches"
    /\ requests[1].call.options.strict = "true"
    /\ mockCalls = <<requests[1].call>>

(***************************************************************************)
(* C23: for a handler derived with whenPathMatches, whenIsTypeOf or        *)
(* whenIsInstanceOf, canStoreValue is true exactly when the added          *)
(* condition holds and the handler it was derived from answers true; along *)
(* a chain of such derivations it is the conjunction of all the added      *)
(* conditions and the innermost handler's canStoreValue.                   *)
(***************************************************************************)
\* the fluent handlers a handler is derived from, itself included
RECURSIVE DerivedFrom(_)
DerivedFrom(handler) ==
    IF handler = 0 THEN {}
    ELSE {handler} \cup DerivedFrom(wrappers[handler].innerHandler)

SingleConditions == {"inner", "whenPathMatches", "whenIsTypeOf", "whenIsInstanceOf"}

\* the condition a derivation of these three kinds has added
SingleHolds(handler, pathInSource, value) ==
    LET condition == wrappers[handler].condition
    IN /\ condition.kind = "whenPathMatches" =>
              Matches(condition.patterns[1], pathInSource)
       /\ condition.kind = "whenIsTypeOf" => TypeOf(value) = condition.type
       /\ condition.kind = "whenIsInstanceOf" => InstanceOf(value, condition.type)

C23_Conjunction ==
    \A handler \in 1..Len(wrappers), pathInSource \in FluentPaths,
       value \in FluentValues :
        LET answer == fluentCanStoreValue(handler, pathInSource,
                                          FluentDestination, value)
        IN /\ wrappers[handler].condition.kind \in SingleConditions =>
                  (answer <=>
                       /\ SingleHolds(handler, pathInSource, value)
                       /\ fluentCanStoreValue(wrappers[handler].innerHandler,
                                              pathInSource, FluentDestination, value))
           /\ (\A h \in DerivedFrom(handler) :
                   wrappers[h].condition.kind \in SingleConditions) =>
                  (answer <=>
                       /\ \A h \in DerivedFrom(handler) :
                              SingleHolds(h, pathInSource, value)
                       /\ defaultCanStoreValue)

\* whenPathMatches("a/*/c") then whenIsTypeOf("string"): a string at a/b/c
\* is accepted, a number at a/b/c and a string at x/y/z are not
C23_Witness ==
    /\ Len(wrappers) = 3
    /\ wrappers[2] = [innerHandler |-> 1, name |-> MockName,
                      condition |-> Condition("whenPathMatches", <<PatternA>>, "")]
    /\ wrappers[3] = [innerHandler |-> 2, name |-> MockName,
                      condition |-> Condition("whenIsTypeOf", <<>>, "string")]
    /\ fluentCanStoreValue(3, <<"a", "/", "b", "/", "c">>, FluentDestination, TextValue)
    /\ ~fluentCanStoreValue(3, <<"a", "/", "b", "/", "c">>, FluentDestination, NumberValue)
    /\ ~fluentCanStoreValue(3, <<"x", "/", "y", "/", "z">>, FluentDestination, TextValue)

(***************************************************************************)
(* C24: withName(n) returns a handler whose name is n.                     *)
(***************************************************************************)
C24_Renamed ==
    \A handler \in 1..Len(wrappers) :
        /\ wrappers[handler].innerHandler # 0
        /\ wrappers[handler].condition = InnerCondition
        => fluentName(handler) \in FluentNames

(***************************************************************************)
(* C25: for a handler derived with whenPathMatchesEvery(patterns),         *)
(* canStoreValue is true exactly when the path matches every pattern of    *)
(* the list and the handler it was derived from answers true.              *)
(***************************************************************************)
C25_EveryPattern ==
    \A handler \in 1..Len(wrappers), pathInSource \in FluentPaths,
       value \in FluentValues :
        wrappers[handler].condition.kind = "whenPathMatchesEvery" =>
            (fluentCanStoreValue(handler, pathInSource, FluentDestination, value)
             <=> /\ \A k \in 1..Len(wrappers[handler].condition.patterns) :
                        Matches(wrappers[handler].condition.patterns[k], pathInSource)
                 /\ fluentCanStoreValue(wrappers[handler].innerHandler,
                                        pathInSource, FluentDestination, value))

\* whenPathMatchesEvery(["a/*/*", "*/y/*"]): a/y/z is accepted, a/b/c and
\* x/y/z, which match one pattern each, are not
C25_Witness ==
    /\ Len(wrappers) = 2
    /\ wrappers[2].condition =
           Condition("whenPathMatchesEvery", <<PatternAny, PatternY>>, "")
    /\ fluentCanStoreValue(2, <<"a", "/", "y", "/", "z">>, FluentDestination, NumberValue)
    /\ ~fluentCanStoreValue(2, <<"a", "/", "b", "/", "c">>, FluentDestination, NumberValue)
    /\ ~fluentCanStoreValue(2, <<"x", "/", "y", "/", "z">>, FluentDestination, NumberValue)

(***************************************************************************)
(* C26: for a handler derived with whenPathMatchesSome(patterns),          *)
(* canStoreValue is true exactly when the path matches at least one        *)
(* pattern of the list and the handler it was derived from answers true.   *)
(***************************************************************************)
C26_SomePattern ==
    \A handler \in 1..Len(wrappers), pathInSource \in FluentPaths,
       value \in FluentValues :
        wrappers[handler].condition.kind = "whenPathMatchesSome" =>
            (fluentCanStoreValue(handler, pathInSource, FluentDestination, value)
             <=> /\ \E k \in 1..Len(wrappers[handler].condition.patterns) :
                        Matches(wrappers[handler].condition.patterns[k], pathInSource)
                 /\ fluentCanStoreValue(wrappers[handler].innerHandler,
                                        pathInSource, FluentDestination, value))

\* whenPathMatchesSome(["a/*/*", "*/y/*"]): x/y/z, which matches the second
\* pattern only, is accepted, and x/b/c is not
C26_Witness ==
    /\ Len(wrappers) = 2
    /\ wrappers[2].condition =
           Condition("whenPathMatchesSome", <<PatternAny, PatternY>>, "")
    /\ fluentCanStoreValue(2, <<"x", "/", "y", "/", "z">>, FluentDestination, NumberValue)
    /\ fluentCanStoreValue(2, <<"a", "/", "b", "/", "c">>, FluentDestination, NumberValue)
    /\ ~fluentCanStoreValue(2, <<"x", "/", "b", "/", "c">>, FluentDestination, NumberValue)

HasTraversal(name) == \E i \in 1..Len(Split(name)) : Split(name)[i] = DOTDOT

\* C28 as stated: a name with ".." segments whose normalized result is the
\* directory or lies below it is accepted, as "../../foo/bar" on /foo/bar
C28_AsStated ==
    resolverPc = "returned" /\ HasTraversal(dirName) =>
        LET parsed == ResolveReference(dirRef.canonicalUrl, dirName)
        IN parsed.ok /\ Within(normalize(parsed.url.path), dirRef.canonicalUrl.path)
               => dirResult.outcome = "ok"

\* C28 as amended: a name with ".." segments that parses is accepted exactly
\* when the normalized path it resolves to starts with the directory's
\* canonical path followed by a separator, and the result then has that
\* path; a name that resolves to the directory's canonical path itself,
\* without a trailing separator, is refused with a DirectoryEscapeError.
C28_Traversal ==
    resolverPc = "returned" /\ HasTraversal(dirName) =>
        LET L == dirRef.canonicalUrl.path
            parsed == ResolveReference(dirRef.canonicalUrl, dirName)
            R == normalize(parsed.url.path)
        IN parsed.ok =>
              /\ dirResult.outcome = "ok" <=> StartsWith(R, WithSeparator(L))
              /\ dirResult.outcome = "ok" => dirResult.url.path = R
              /\ R = L /\ L # SLASH => dirResult.outcome = "DirectoryEscapeError"

\* "../a/a" on the directory /a leaves it and comes back: file:///a/a
C28_Witness ==
    /\ resolverPc = "returned"
    /\ dirRef.canonicalUrl = FileUrl(<<"/", "a">>)
    /\ dirName = <<".", ".", "/", "a", "/", "a">>
    /\ dirResult.outcome = "ok"
    /\ dirResult.url = FileUrl(<<"/", "a", "/", "a">>)

(***************************************************************************)
(* C29: a string or number property that no candidate handler accepts      *)
(* causes no further storeValue invocation and no further createDirectory  *)
(* call (stated for the properties of a plain-object root).                *)
(***************************************************************************)
C29_LeafEndsRecursion ==
    isPlainObject(rootValue) /\ answered = "none" =>
        /\ \A k \in 2..Len(stack) : stack[k].value.kind \notin {"string", "number"}
        /\ \A i \in 1..Len(calls) :
               calls[i].op = "createDirectory" =>
                   calls[i].value.kind \notin {"string", "number"}

(***************************************************************************)
(* C30: the URL a successful getContentsUrl returns has the scheme and the *)
(* host of the directory's canonical URL.                                  *)
(***************************************************************************)
C30_SameOrigin ==
    resolverPc = "returned" /\ dirResult.outcome = "ok" =>
        /\ dirResult.url.scheme = dirRef.canonicalUrl.scheme
        /\ dirResult.url.host = dirRef.canonicalUrl.host

====
